---- MODULE Spec2Model ----
(***************************************************************************)
(* Streaming process / event pipeline of droid-sdk.                        *)
(*                                                                         *)
(*   parseJsonLines      src/src/cli/stream-parser.ts                      *)
(*   createEventIterator src/src/thread.ts (Thread.runStreamed)            *)
(*   waitForExit         src/src/cli/utils.ts                              *)
(*   spawnDroid          src/src/cli/process.ts                            *)
(*   execDroidJson       src/src/cli/process.ts                            *)
(*   buildTurnResultFromEvents  src/src/turn.ts                            *)
(*   collectStreamEvents src/src/cli/stream-parser.ts                      *)
(*   findDroidPath       src/src/cli/process.ts                            *)
(*   buildPromptWithAttachments  src/src/cli/process.ts                    *)
(*                                                                         *)
(* Bytes of the subprocess's stdout are modelled by a small alphabet:      *)
(*   "M" "F" "G"  the opening text of a JSON object, up to and including   *)
(*                the opening quote of its payload string                  *)
(*                ("M" a message, "F" a turn.failed with error.message,    *)
(*                 "G" a turn.failed that lacks the error field)           *)
(*   "0" "1" "2"  the closing text of a JSON object, from the closing      *)
(*                quote on ("0" without session_id, "1" with session_id    *)
(*                s1, "2" with session_id s2)                              *)
(*   "p"          a digit (a JSON number is a run of them)                 *)
(*   "x"          a control byte, not allowed anywhere in a JSON text      *)
(*   "s"          a space, "n" a newline (0x0A)                            *)
(*   "L" "T"      the lead and the continuation byte of one two-byte       *)
(*                UTF-8 character                                          *)
(* Decoded characters are the same symbols, "E" for the two-byte           *)
(* character and "U" for U+FFFD.                                           *)
(***************************************************************************)
EXTENDS Integers, Sequences, FiniteSets, TLC

VARIABLES input, pos, src, pjl, cons, proc, thread, it, result, blk

vars == <<input, pos, src, pjl, cons, proc, thread, it, result, blk>>

(***************************************************************************)
(* Bounds                                                                  *)
(***************************************************************************)
MaxLines == 3

MaxRecords == 2

MaxData == 2

PipeCap == 1

(***************************************************************************)
(* Errors                                                                  *)
(***************************************************************************)
NoError ==
    [kind |-> "none", cause |-> "none", raw |-> <<>>, code |-> 0, stderr |-> <<>>, sessionId |-> ""]

\* new ParseError(message, raw = line, cause = SyntaxError)
ParseError(line) ==
    [kind |-> "ParseError", cause |-> "SyntaxError", raw |-> line, code |-> 0, stderr |-> <<>>,
     sessionId |-> ""]

\* the error a failed reader.read() rejects with
ReadFailure ==
    [kind |-> "Error", cause |-> "none", raw |-> <<>>, code |-> 0, stderr |-> <<>>, sessionId |-> ""]

\* a value that is not an Error instance, given as the reason of a failure
ThrownValue ==
    [kind |-> "value", cause |-> "none", raw |-> <<>>, code |-> 0, stderr |-> <<>>, sessionId |-> ""]

\* error instanceof Error ? error : new Error(String(error))
AsError(e) == IF e.kind = "value" THEN [e EXCEPT !.kind = "Error"] ELSE e

\* new StreamError('Failed to read stream', cause)
StreamError(e) ==
    [kind |-> "StreamError", cause |-> e.kind, raw |-> e.raw, code |-> 0, stderr |-> <<>>,
     sessionId |-> ""]

\* the TypeError of `'session_id' in 1` and of `undefined.message`
TypeError ==
    [kind |-> "TypeError", cause |-> "none", raw |-> <<>>, code |-> 0, stderr |-> <<>>,
     sessionId |-> ""]

\* new ExecutionError(message, exitCode, stderr, sessionId); stderr is a text
\* (a sequence of characters, <<>> for '')
ExecutionError(exitCode, stderr, sessionId) ==
    [kind |-> "ExecutionError", cause |-> "none", raw |-> <<>>, code |-> exitCode,
     stderr |-> stderr, sessionId |-> sessionId]

\* new TimeoutError(timeoutMs); the code field holds timeoutMs
TimeoutError(timeoutMs) ==
    [kind |-> "TimeoutError", cause |-> "none", raw |-> <<>>, code |-> timeoutMs,
     stderr |-> <<>>, sessionId |-> ""]

(***************************************************************************)
(* TextDecoder('utf-8').decode(value, {stream: true})                      *)
(***************************************************************************)
RECURSIVE DecodeFrom(_, _, _, _)
DecodeFrom(pend, bytes, i, acc) ==
    IF i > Len(bytes) THEN [chars |-> acc, pend |-> pend]
    ELSE LET b == bytes[i] IN
         IF pend # <<>>
         THEN IF b = "T" THEN DecodeFrom(<<>>, bytes, i + 1, Append(acc, "E"))
              ELSE DecodeFrom(<<>>, bytes, i, Append(acc, "U"))
         ELSE IF b = "L" THEN DecodeFrom(<<"L">>, bytes, i + 1, acc)
              ELSE IF b = "T" THEN DecodeFrom(<<>>, bytes, i + 1, Append(acc, "U"))
              ELSE DecodeFrom(<<>>, bytes, i + 1, Append(acc, b))

Decode(pend, bytes) == DecodeFrom(pend, bytes, 1, <<>>)

(***************************************************************************)
(* String.prototype.split('\n') and trim()                                 *)
(***************************************************************************)
RECURSIVE SplitFrom(_, _, _, _)
SplitFrom(s, i, cur, acc) ==
    IF i > Len(s) THEN Append(acc, cur)
    ELSE IF s[i] = "n" THEN SplitFrom(s, i + 1, <<>>, Append(acc, cur))
         ELSE SplitFrom(s, i + 1, Append(cur, s[i]), acc)

Split(s) == SplitFrom(s, 1, <<>>, <<>>)

IsSpace(c) == c \in {"s", "n"}

RECURSIVE TrimLeft(_)
TrimLeft(s) == IF s # <<>> /\ IsSpace(Head(s)) THEN TrimLeft(Tail(s)) ELSE s

RECURSIVE TrimRight(_)
TrimRight(s) ==
    IF s # <<>> /\ IsSpace(s[Len(s)]) THEN TrimRight(SubSeq(s, 1, Len(s) - 1)) ELSE s

Trim(s) == TrimRight(TrimLeft(s))

(***************************************************************************)
(* JSON.parse on one trimmed line                                          *)
(***************************************************************************)
Heads == {"M", "F", "G"}

Tails == {"0", "1", "2"}

PayloadChars == {"E", "U", "s"}

IsNumberText(t) == t # <<>> /\ \A i \in 1..Len(t) : t[i] = "p"

IsObjectText(t) ==
    /\ Len(t) >= 2
    /\ t[1] \in Heads
    /\ t[Len(t)] \in Tails
    /\ \A i \in 2..(Len(t) - 1) : t[i] \in PayloadChars

IsJson(t) == IsNumberText(t) \/ IsObjectText(t)

SessionOf(c) == IF c = "1" THEN "s1" ELSE IF c = "2" THEN "s2" ELSE ""

\* The value JSON.parse returns. isObject: the value is an object (the `in`
\* operator applies); hasError: the object has an `error` object.
JsonValue(t) ==
    IF IsNumberText(t)
    THEN [type |-> "number", text |-> t, session_id |-> "", isObject |-> FALSE,
          hasError |-> FALSE]
    ELSE [type |-> IF t[1] = "M" THEN "message" ELSE "turn.failed",
          text |-> SubSeq(t, 2, Len(t) - 1),
          session_id |-> SessionOf(t[Len(t)]),
          isObject |-> TRUE,
          hasError |-> t[1] = "F"]

NoValue == [type |-> "none", text |-> <<>>, session_id |-> "", isObject |-> FALSE,
            hasError |-> FALSE]

(***************************************************************************)
(* parseJsonLines: the generator's state and its steps                     *)
(*   pc      "unstarted"  body not entered (no reader acquired yet)        *)
(*           "read"       suspended in `await reader.read()`               *)
(*           "yield"      suspended at the yield inside the for loop       *)
(*           "yieldLast"  suspended at the yield of the end-of-stream rest *)
(*           "done"       completed (returned, threw, or was returned)     *)
(*   buffer  the accumulation buffer; pend: bytes the decoder holds back   *)
(*   lines   the complete lines of the current chunk not yet looked at     *)
(*   cur     the value of the pending yield                                *)
(*   out     every value yielded so far                                    *)
(*   end     "none" | "return" | "throw" | "cancel", err the error thrown  *)
(*   lock    "none" | "held" | "released", releases: calls of releaseLock  *)
(***************************************************************************)
PjlInit ==
    [pc |-> "unstarted", buffer |-> <<>>, pend |-> <<>>, lines |-> <<>>,
     cur |-> NoValue, out |-> <<>>, end |-> "none", err |-> NoError,
     lock |-> "none", releases |-> 0]

\* finally { reader.releaseLock() } and the generator's completion
PjlFinish(p, how, e) ==
    [p EXCEPT !.pc = "done", !.end = how, !.err = e, !.cur = NoValue,
              !.lines = <<>>, !.lock = "released", !.releases = @ + 1]

\* parseJsonLine fails: the ParseError is thrown inside the try block, so the
\* catch wraps it: throw new StreamError('Failed to read stream', error)
PjlThrowParse(p, line) == PjlFinish(p, "throw", StreamError(AsError(ParseError(line))))

\* yield parseJsonLine(trimmed)
PjlYield(p, where, t) ==
    [p EXCEPT !.pc = where, !.cur = JsonValue(t), !.out = Append(@, JsonValue(t))]

\* a loop that skips a line that does not parse instead of failing
RECURSIVE PjlLoopSkipInvalid(_)
PjlLoopSkipInvalid(p) ==
    IF p.lines = <<>> THEN [p EXCEPT !.pc = "read", !.cur = NoValue]
    ELSE LET t == Trim(Head(p.lines))
             q == [p EXCEPT !.lines = Tail(@)]
         IN IF t = <<>> \/ ~IsJson(t) THEN PjlLoopSkipInvalid(q)
            ELSE PjlYield(q, "yield", t)

\* a loop that hands every line to parseJsonLine, blank ones included
RECURSIVE PjlLoopParseBlank(_)
PjlLoopParseBlank(p) ==
    IF p.lines = <<>> THEN [p EXCEPT !.pc = "read", !.cur = NoValue]
    ELSE LET t == Trim(Head(p.lines))
             q == [p EXCEPT !.lines = Tail(@)]
         IN IF t # <<>> /\ IsJson(t) THEN PjlYield(q, "yield", t)
            ELSE PjlThrowParse(q, t)

\* for (const line of lines) { const trimmed = line.trim(); if (trimmed) yield ... }
RECURSIVE PjlLoop(_)
PjlLoop(p) ==
    IF p.lines = <<>> THEN [p EXCEPT !.pc = "read", !.cur = NoValue]
    ELSE LET t == Trim(Head(p.lines))
             q == [p EXCEPT !.lines = Tail(@)]
         IN IF t = <<>> THEN PjlLoop(q)
            ELSE IF IsJson(t) THEN PjlYield(q, "yield", t)
            ELSE PjlThrowParse(q, t)

\* buffer = lines.pop() ?? '' replaced by buffer = '' (the partial line is lost)
PjlSplitDropRest(buf) ==
    LET segs == Split(buf) IN
    [lines |-> SubSeq(segs, 1, Len(segs) - 1), buffer |-> <<>>]

\* a split that leaves the whole text in the buffer
PjlSplitKeepsBuffer(buf) ==
    LET segs == Split(buf) IN
    [lines |-> SubSeq(segs, 1, Len(segs) - 1), buffer |-> buf]

\* const lines = buffer.split('\n'); buffer = lines.pop() ?? ''
PjlSplit(buf) ==
    LET segs == Split(buf) IN
    [lines |-> SubSeq(segs, 1, Len(segs) - 1), buffer |-> segs[Len(segs)]]

\* reader.read() resolved {done: false, value: bytes}
PjlOnChunk(p, bytes) ==
    LET d == Decode(p.pend, bytes)
        s == PjlSplit(p.buffer \o d.chars)
    IN PjlLoop([p EXCEPT !.pend = d.pend, !.buffer = s.buffer, !.lines = s.lines])

\* reader.read() resolved {done: true}
PjlOnDone(p) ==
    LET t == Trim(p.buffer) IN
    IF t = <<>> THEN PjlFinish(p, "return", NoError)
    ELSE IF IsJson(t) THEN PjlYield(p, "yieldLast", t)
    ELSE PjlThrowParse(p, t)

\* a catch clause that swallows the rejection and lets the generator return
PjlOnReadErrorSwallowed(p, reason) == PjlFinish(p, "return", NoError)

\* reader.read() rejected with reason: the catch clause wraps it
PjlOnReadError(p, reason) == PjlFinish(p, "throw", StreamError(AsError(reason)))

\* next() on the generator: enter the body, or resume after a yield
PjlNext(p) ==
    CASE p.pc = "unstarted" -> [p EXCEPT !.pc = "read", !.lock = "held"]
      [] p.pc = "yield"     -> PjlLoop(p)
      [] p.pc = "yieldLast" -> PjlFinish(p, "return", NoError)
      [] OTHER              -> p

\* a return() that completes the generator without running the finally block
PjlReturnKeepsLock(p) ==
    CASE p.pc \in {"yield", "yieldLast", "unstarted"} ->
            [p EXCEPT !.pc = "done", !.end = "cancel", !.cur = NoValue, !.lines = <<>>]
      [] OTHER -> p

\* return() on the generator: at a yield the finally block runs; a generator
\* whose body was never entered completes without running anything
PjlReturn(p) ==
    CASE p.pc \in {"yield", "yieldLast"} -> PjlFinish(p, "cancel", NoError)
      [] p.pc = "unstarted" -> [p EXCEPT !.pc = "done", !.end = "cancel"]
      [] OTHER -> p

(***************************************************************************)
(* The byte source: what a reader.read() can resolve with                  *)
(*   src = "open"     chunks of the remaining input, then done             *)
(*   src = "errored"  the read rejects with an Error                       *)
(*   src = "thrown"   the read rejects with a value that is not an Error   *)
(***************************************************************************)
Remaining == Len(input) - pos

\* the reason a read of the failed source rejects with
SrcReason == IF src = "thrown" THEN ThrownValue ELSE ReadFailure

Chunk(k) == SubSeq(input, pos + 1, pos + k)

\* The whole input delivered as one chunk to a consumer that drains the
\* sequence.
RECURSIVE Drain(_)
Drain(p) ==
    CASE p.pc = "done" -> p
      [] p.pc = "read" -> Drain(PjlOnDone(p))
      [] OTHER         -> Drain(PjlNext(p))

OneShot(bytes) ==
    LET p0 == PjlNext(PjlInit) IN
    IF bytes = <<>> THEN Drain(p0) ELSE Drain(PjlOnChunk(p0, bytes))

(***************************************************************************)
(* Inputs: lines joined by newlines                                        *)
(***************************************************************************)
RECURSIVE Join(_)
Join(ls) ==
    IF ls = <<>> THEN <<>>
    ELSE IF Len(ls) = 1 THEN ls[1]
    ELSE ls[1] \o <<"n">> \o Join(Tail(ls))

LineSeqs(S, n) == UNION {[1..k -> S] : k \in 0..n}

ParseLineSet ==
    { <<"p">>, <<"M", "L", "T", "1">>, <<>>, <<"s">>, <<"s", "p">>, <<"x">>, <<"M", "L">> }

IdleProc == [state |-> "none"]

IdleIt == [pc |-> "none"]

IdleResult == [state |-> "none"]

IdleBlk == [pc |-> "none"]

(***************************************************************************)
(* SpecParse: a consumer iterating parseJsonLines over a chunked source    *)
(*   cons.state  "idle" | "waiting" (a next() is pending) | "holding" (has *)
(*               an event) | "done" | "threw" | "stopped" (called return)  *)
(*   cons.cut    some chunk ended in the middle of a line                  *)
(***************************************************************************)
InitParse ==
    /\ \E ls \in LineSeqs(ParseLineSet, MaxLines), nl \in BOOLEAN :
          input = Join(ls) \o (IF nl THEN <<"n">> ELSE <<>>)
    /\ pos = 0
    /\ src = "open"
    /\ pjl = PjlInit
    /\ cons = [state |-> "idle", got |-> <<>>, err |-> NoError, cut |-> FALSE]
    /\ proc = IdleProc
    /\ thread = ""
    /\ it = IdleIt
    /\ result = IdleResult
    /\ blk = IdleBlk

\* what the consumer of parseJsonLines sees once the generator stops running
Deliver(c, p) ==
    CASE p.pc \in {"yield", "yieldLast"} ->
            [c EXCEPT !.state = "holding", !.got = Append(@, p.cur)]
      [] p.pc = "done" /\ p.end = "throw" -> [c EXCEPT !.state = "threw", !.err = p.err]
      [] p.pc = "done" -> [c EXCEPT !.state = "done"]
      [] OTHER -> [c EXCEPT !.state = "waiting"]

\* the consumer's for await asks for the next value
PConsumerNext ==
    /\ cons.state \in {"idle", "holding"}
    /\ pjl' = PjlNext(pjl)
    /\ cons' = Deliver(cons, pjl')
    /\ UNCHANGED <<input, pos, src, proc, thread, it, result, blk>>

\* the consumer leaves its loop early (break): return() on the generator
PConsumerBreak ==
    /\ cons.state \in {"idle", "holding"}
    /\ pjl' = PjlReturn(pjl)
    /\ cons' = [cons EXCEPT !.state = "stopped"]
    /\ UNCHANGED <<input, pos, src, proc, thread, it, result, blk>>

\* a pending read resolves with the next k bytes
PReadChunk ==
    /\ pjl.pc = "read"
    /\ src = "open"
    /\ \E k \in 1..Remaining :
          /\ pjl' = PjlOnChunk(pjl, Chunk(k))
          /\ pos' = pos + k
          /\ cons' = [Deliver(cons, pjl') EXCEPT
                         !.cut = @ \/ pjl'.buffer # <<>> \/ pjl'.pend # <<>>]
    /\ UNCHANGED <<input, src, proc, thread, it, result, blk>>

\* a pending read resolves with done
PReadDone ==
    /\ pjl.pc = "read"
    /\ src = "open"
    /\ Remaining = 0
    /\ pjl' = PjlOnDone(pjl)
    /\ cons' = Deliver(cons, pjl')
    /\ UNCHANGED <<input, pos, src, proc, thread, it, result, blk>>

\* the byte source fails: controller.error(reason); a source that has
\* reported done is closed and cannot fail any more
PSourceFail ==
    /\ src = "open"
    /\ pjl.pc \notin {"done", "yieldLast"}
    /\ src' \in {"errored", "thrown"}
    /\ UNCHANGED <<input, pos, pjl, cons, proc, thread, it, result, blk>>

\* a pending read rejects
PReadError ==
    /\ pjl.pc = "read"
    /\ src # "open"
    /\ pjl' = PjlOnReadError(pjl, SrcReason)
    /\ cons' = Deliver(cons, pjl')
    /\ UNCHANGED <<input, pos, src, proc, thread, it, result, blk>>

NextParse ==
    \/ PConsumerNext
    \/ PConsumerBreak
    \/ PReadChunk
    \/ PReadDone
    \/ PSourceFail
    \/ PReadError

SpecParse == InitParse /\ [][NextParse]_vars

(***************************************************************************)
(* buildTurnResultFromEvents (src/src/turn.ts)                             *)
(***************************************************************************)
EmptyTurn ==
    [finalResponse |-> <<>>, items |-> <<>>, sessionId |-> "", durationMs |-> 0,
     numTurns |-> 0, isError |-> FALSE]

\* a latch that copies the event's session id even when it is empty
FoldSessionOverwrite(t, ev) == [t EXCEPT !.sessionId = ev.session_id]

\* turn.ts 326-328: the session id is overwritten by every non-empty one
FoldSession(t, ev) ==
    IF ev.session_id # "" THEN [t EXCEPT !.sessionId = ev.session_id] ELSE t

\* items.unshift instead of items.push
FoldItemUnshift(t, ev) ==
    [t EXCEPT !.items = <<[type |-> ev.type, text |-> ev.text]>> \o @]

\* turn.ts 331-364: items.push({...}) for a message, a tool_call and a
\* tool_result; the item keeps the event's tag and payload
FoldItem(t, ev) == [t EXCEPT !.items = Append(@, [type |-> ev.type, text |-> ev.text])]

\* a completion that also resets the error flag
FoldCompletionClearsError(t, ev) ==
    [t EXCEPT !.finalResponse = ev.text, !.durationMs = ev.durationMs,
              !.numTurns = ev.numTurns, !.isError = FALSE]

\* a completion that leaves the turn count alone
FoldCompletionKeepsTurns(t, ev) ==
    [t EXCEPT !.finalResponse = ev.text, !.durationMs = ev.durationMs]

\* turn.ts 366-370
FoldCompletion(t, ev) ==
    [t EXCEPT !.finalResponse = ev.text, !.durationMs = ev.durationMs,
              !.numTurns = ev.numTurns]

\* a failure that records the message and leaves the error flag alone
FoldFailedKeepsFlag(t, ev) == [t EXCEPT !.finalResponse = ev.text]

\* a failure that resets the timing of the turn
FoldFailedClearsTiming(t, ev) ==
    [t EXCEPT !.isError = TRUE, !.finalResponse = ev.text, !.durationMs = 0,
              !.numTurns = 0]

\* turn.ts 372-375, for an event that has its error object
FoldFailed(t, ev) == [t EXCEPT !.isError = TRUE, !.finalResponse = ev.text]

\* One pass of the for loop. threw: the iteration raised a TypeError
\* (`'session_id' in event` on a value that is no object, or
\* `event.error.message` on a turn.failed without error).
FoldEvent(acc, ev) ==
    IF ~ev.isObject THEN [acc EXCEPT !.threw = TRUE]
    ELSE LET t1 == FoldSession(acc.turn, ev) IN
         CASE ev.type \in {"message", "tool_call", "tool_result"} ->
                    [acc EXCEPT !.turn = FoldItem(t1, ev)]
           [] ev.type = "completion" -> [acc EXCEPT !.turn = FoldCompletion(t1, ev)]
           [] ev.type = "turn.failed" ->
                    IF ev.hasError
                    THEN [acc EXCEPT !.turn = FoldFailed(t1, ev)]
                    ELSE [acc EXCEPT !.turn = [t1 EXCEPT !.isError = TRUE], !.threw = TRUE]
           [] OTHER -> [acc EXCEPT !.turn = t1]

RECURSIVE FoldFrom(_, _, _)
FoldFrom(events, i, acc) ==
    IF i > Len(events) \/ acc.threw THEN acc
    ELSE FoldFrom(events, i + 1, FoldEvent(acc, events[i]))

buildTurnResultFromEvents(events) ==
    FoldFrom(events, 1, [turn |-> EmptyTurn, threw |-> FALSE])

(***************************************************************************)
(* collectStreamEvents (src/src/cli/stream-parser.ts)                      *)
(* A variable that is still undefined holds UndefinedId / UndefinedText.   *)
(***************************************************************************)
UndefinedId == "undefined"

UndefinedText == <<"undefined">>

EmptySummary ==
    [sessionId |-> UndefinedId, finalText |-> UndefinedText, durationMs |-> 0,
     numTurns |-> 0, isError |-> FALSE, errorMessage |-> UndefinedText]

\* stream-parser.ts 133-146: one pass of the for loop
CollectEvent(acc, ev) ==
    IF ~ev.isObject THEN [acc EXCEPT !.threw = TRUE]
    ELSE LET s1 == IF ev.session_id # ""
                   THEN [acc.sum EXCEPT !.sessionId = ev.session_id]
                   ELSE acc.sum
             s2 == IF ev.type = "completion"
                   THEN [s1 EXCEPT !.finalText = ev.text, !.durationMs = ev.durationMs,
                                   !.numTurns = ev.numTurns]
                   ELSE s1
         IN IF ev.type # "turn.failed" THEN [acc EXCEPT !.sum = s2]
            ELSE IF ev.hasError
            THEN [acc EXCEPT !.sum = [s2 EXCEPT !.isError = TRUE, !.errorMessage = ev.text]]
            ELSE [acc EXCEPT !.sum = [s2 EXCEPT !.isError = TRUE], !.threw = TRUE]

RECURSIVE CollectFrom(_, _, _)
CollectFrom(events, i, acc) ==
    IF i > Len(events) \/ acc.threw THEN acc
    ELSE CollectFrom(events, i + 1, CollectEvent(acc, events[i]))

collectStreamEvents(events) ==
    CollectFrom(events, 1, [sum |-> EmptySummary, threw |-> FALSE])

(***************************************************************************)
(* SpecFold: buildTurnResultFromEvents, then collectStreamEvents, applied  *)
(* to one array of events, one loop iteration per step                     *)
(*   input   the events array                                              *)
(*   result  the run of buildTurnResultFromEvents: state "running" |       *)
(*           "returned" | "threw", n: events processed, acc: its locals    *)
(*   it      the run of collectStreamEvents, state "idle" before it starts *)
(***************************************************************************)
MaxEvents == 3

\* an event as JSON.parse returns it; text is the payload the aggregation
\* reads (text, finalText, error.message)
Event(type, text, sid) ==
    [type |-> type, text |-> text, session_id |-> sid, isObject |-> TRUE,
     hasError |-> type = "turn.failed", durationMs |-> 0, numTurns |-> 0]

Completion(text, sid, ms, turns) ==
    [Event("completion", text, sid) EXCEPT !.durationMs = ms, !.numTurns = turns]

\* the six variants with and without a session identifier, a turn.failed
\* that lacks its error object, and a JSON number
FoldEvents ==
    { Event("system", <<>>, "s1"),
      Event("message", <<"a">>, "s1"),
      Event("message", <<"b">>, ""),
      Event("tool_call", <<"c">>, "s2"),
      Event("tool_result", <<"r">>, ""),
      Completion(<<"d">>, "s1", 1500, 1),
      Completion(<<"e">>, "", 2500, 2),
      Event("turn.failed", <<"x">>, "s2"),
      Event("turn.failed", <<"y">>, ""),
      [Event("turn.failed", <<>>, "") EXCEPT !.hasError = FALSE],
      [Event("number", <<"p">>, "") EXCEPT !.isObject = FALSE] }

InitFold ==
    /\ input \in LineSeqs(FoldEvents, MaxEvents)
    /\ pos = 0
    /\ src = "none"
    /\ pjl = PjlInit
    /\ cons = [state |-> "idle", got |-> <<>>, err |-> NoError, cut |-> FALSE]
    /\ proc = IdleProc
    /\ thread = ""
    /\ it = [state |-> "idle", n |-> 0, acc |-> [sum |-> EmptySummary, threw |-> FALSE]]
    /\ result = [state |-> "running", n |-> 0, acc |-> [turn |-> EmptyTurn, threw |-> FALSE]]
    /\ blk = IdleBlk

\* buildTurnResultFromEvents: one iteration of `for (const event of events)`
BuildStep ==
    /\ result.state = "running"
    /\ result.n < Len(input)
    /\ LET a == FoldEvent(result.acc, input[result.n + 1]) IN
       result' = [state |-> IF a.threw THEN "threw" ELSE "running",
                  n |-> result.n + 1, acc |-> a]
    /\ UNCHANGED <<input, pos, src, pjl, cons, proc, thread, it, blk>>

\* buildTurnResultFromEvents: return new TurnResult({...})
BuildReturn ==
    /\ result.state = "running"
    /\ result.n = Len(input)
    /\ result' = [result EXCEPT !.state = "returned"]
    /\ UNCHANGED <<input, pos, src, pjl, cons, proc, thread, it, blk>>

\* collectStreamEvents is called on the same array
CollectCall ==
    /\ result.state \in {"returned", "threw"}
    /\ it.state = "idle"
    /\ it' = [it EXCEPT !.state = "running"]
    /\ UNCHANGED <<input, pos, src, pjl, cons, proc, thread, result, blk>>

\* collectStreamEvents: one iteration of `for (const event of events)`
CollectStep ==
    /\ it.state = "running"
    /\ it.n < Len(input)
    /\ LET a == CollectEvent(it.acc, input[it.n + 1]) IN
       it' = [state |-> IF a.threw THEN "threw" ELSE "running", n |-> it.n + 1, acc |-> a]
    /\ UNCHANGED <<input, pos, src, pjl, cons, proc, thread, result, blk>>

\* collectStreamEvents: return { sessionId, finalText, ... }
CollectReturn ==
    /\ it.state = "running"
    /\ it.n = Len(input)
    /\ it' = [it EXCEPT !.state = "returned"]
    /\ UNCHANGED <<input, pos, src, pjl, cons, proc, thread, result, blk>>

NextFold ==
    \/ BuildStep
    \/ BuildReturn
    \/ CollectCall
    \/ CollectStep
    \/ CollectReturn

SpecFold == InitFold /\ [][NextFold]_vars

(***************************************************************************)
(* waitForExit (src/src/cli/utils.ts)                                      *)
(*   proc.state     "running" | "exited" | "closed" ('close' was emitted)  *)
(*   proc.exitCode  NullCode while running and after death by a signal     *)
(*   proc.killedBy  who called proc.kill(): "none" | "caller" | "timer"     *)
(*   proc.timeout   the timeout of the spawn options                       *)
(***************************************************************************)
NullCode == -1

ExitCodes == {0, 1}

\* proc.on('close', ...) then `if (proc.exitCode !== null) resolveOnce(proc.exitCode)`
\* listening: the close listener is attached and 'close' is still to come
WaitForExit(pr) ==
    [listening |-> pr.state # "closed",
     resolved |-> pr.exitCode # NullCode,
     code |-> pr.exitCode]

\* 'close' listener: resolveOnce(code ?? 0)
CloseCode(pr) == IF pr.exitCode = NullCode THEN 0 ELSE pr.exitCode

(***************************************************************************)
(* Thread.runStreamed: createEventIterator (src/src/thread.ts)             *)
(*   it.pc  "unstarted" | "pulling" (awaiting events.next())               *)
(*          | "yielded" (suspended at `yield event`)                       *)
(*          | "awaitExit" (awaiting waitForExit) | "done"                  *)
(*   it.collected  collectedEvents                                         *)
(*   it.exit       the exit code waitForExit resolved with (NullCode: not  *)
(*                 resolved)                                               *)
(*   it.called     waitForExit was called; it.listening: its 'close'       *)
(*                 listener is attached and 'close' is still to come       *)
(*   it.resolved   the `resolved` flag of waitForExit; it.attempts: calls  *)
(*                 of resolveOnce; it.resolves: calls of resolve           *)
(*   thread        Thread._sessionId ("" for undefined)                    *)
(*   result        the deferred result: state "pending" | "resolved" |     *)
(*                 "rejected"; from: the array the TurnResult was built    *)
(*                 from; calls: invocations of resolveResult/rejectResult  *)
(*   cons          the live consumer: state as in SpecParse, got: the      *)
(*                 events it received                                      *)
(* The four are handled together as one record s.                          *)
(***************************************************************************)
ItInit ==
    [pc |-> "unstarted", collected |-> <<>>, exit |-> NullCode, listening |-> FALSE,
     caught |-> NoError, called |-> FALSE, resolved |-> FALSE, attempts |-> 0,
     resolves |-> 0]

\* a resolveOnce without the `resolved` guard
ResolveOnceUnguarded(i, code) ==
    [i EXCEPT !.resolved = TRUE, !.exit = IF i.resolved THEN @ ELSE code,
              !.attempts = @ + 1, !.resolves = @ + 1]

\* utils.ts 55-61: resolveOnce(code)
ResolveOnce(i, code) ==
    IF ~i.resolved
    THEN [i EXCEPT !.resolved = TRUE, !.exit = code, !.attempts = @ + 1, !.resolves = @ + 1]
    ELSE [i EXCEPT !.attempts = @ + 1]

ResultInit ==
    [state |-> "pending", value |-> EmptyTurn, err |-> NoError, from |-> <<>>, calls |-> 0]

\* resolveResult(value): a promise keeps its first settlement
Resolve(r, value, from) ==
    IF r.state = "pending"
    THEN [r EXCEPT !.state = "resolved", !.value = value, !.from = from, !.calls = @ + 1]
    ELSE [r EXCEPT !.calls = @ + 1]

\* rejectResult(error)
Reject(r, e) ==
    IF r.state = "pending"
    THEN [r EXCEPT !.state = "rejected", !.err = e, !.calls = @ + 1]
    ELSE [r EXCEPT !.calls = @ + 1]

\* catch (error) { rejectResult(error) }: the generator then completes
\* normally, so the consumer's iteration ends without an error
IterCatch(s, e) ==
    [s EXCEPT !.it.pc = "done", !.it.caught = e, !.result = Reject(@, e),
              !.cons.state = "done"]

\* lines 46-52 with the push moved into the latching branch: an event is
\* buffered only when it sets the session id
IterOnEventPushInLatch(s, ev) ==
    IF ~ev.isObject
    THEN IterCatch(s, TypeError)
    ELSE [s EXCEPT !.it.collected =
                       IF ev.session_id # "" /\ s.thread = "" THEN Append(@, ev) ELSE @,
                   !.thread = IF ev.session_id # "" /\ @ = "" THEN ev.session_id ELSE @,
                   !.it.pc = "yielded",
                   !.cons.state = "holding",
                   !.cons.got = Append(@, ev)]

\* lines 46-52 with a latch that lacks the !self._sessionId test
IterOnEventRelatch(s, ev) ==
    LET s1 == [s EXCEPT !.it.collected = Append(@, ev)] IN
    IF ~ev.isObject
    THEN IterCatch(s1, TypeError)
    ELSE [s1 EXCEPT !.thread = IF ev.session_id # "" THEN ev.session_id ELSE @,
                    !.it.pc = "yielded",
                    !.cons.state = "holding",
                    !.cons.got = Append(@, ev)]

\* lines 46-52 with the yield first: the event is handed to the consumer
\* before it is buffered and before its session id is latched
IterOnEventYieldFirst(s, ev) ==
    IF ~ev.isObject
    THEN IterCatch(s, TypeError)
    ELSE [s EXCEPT !.it.pc = "yielded",
                   !.cons.state = "holding",
                   !.cons.got = Append(@, ev)]

\* collectedEvents.push(event); latch the session id; yield event
IterOnEvent(s, ev) ==
    LET s1 == [s EXCEPT !.it.collected = Append(@, ev)] IN
    IF ~ev.isObject
    THEN IterCatch(s1, TypeError)
    ELSE [s1 EXCEPT !.thread = IF ev.session_id # "" /\ @ = "" THEN ev.session_id ELSE @,
                    !.it.pc = "yielded",
                    !.cons.state = "holding",
                    !.cons.got = Append(@, ev)]

\* a reconciliation that reports the captured-stderr placeholder and no session
IterReconcileNoSession(s, code) ==
    LET f == buildTurnResultFromEvents(s.it.collected)
        s1 == [s EXCEPT !.it.exit = code]
    IN IF code # 0 /\ Len(s.it.collected) = 0
       THEN [s1 EXCEPT !.it.pc = "done", !.cons.state = "done",
                       !.result = Reject(@, ExecutionError(code, <<>>, ""))]
       ELSE IF f.threw THEN IterCatch(s1, TypeError)
       ELSE [s1 EXCEPT !.it.pc = "done", !.cons.state = "done",
                       !.result = Resolve(@, f.turn, s.it.collected)]

\* lines 56-68 without the `return` after rejectResult: the resolve follows
IterReconcileFallsThrough(s, code) ==
    LET f == buildTurnResultFromEvents(s.it.collected)
        s1 == [s EXCEPT !.it.exit = code]
        s2 == IF code # 0 /\ Len(s.it.collected) = 0
              THEN [s1 EXCEPT !.result = Reject(@, ExecutionError(code, <<>>, s.thread))]
              ELSE s1
    IN IF f.threw THEN IterCatch(s2, TypeError)
       ELSE [s2 EXCEPT !.it.pc = "done", !.cons.state = "done",
                       !.result = Resolve(@, f.turn, s.it.collected)]

\* lines 56-68: the exit code is known
IterReconcile(s, code) ==
    LET f == buildTurnResultFromEvents(s.it.collected)
        s1 == [s EXCEPT !.it.exit = code]
    IN IF code # 0 /\ Len(s.it.collected) = 0
       THEN [s1 EXCEPT !.it.pc = "done", !.cons.state = "done",
                       !.result = Reject(@, ExecutionError(code, <<>>, s.thread))]
       ELSE IF f.threw THEN IterCatch(s1, TypeError)
       ELSE [s1 EXCEPT !.it.pc = "done", !.cons.state = "done",
                       !.result = Resolve(@, f.turn, s.it.collected)]

\* line 55: the for await loop ended, `await streamingProcess.waitForExit()`
IterOnEnd(s, pr) ==
    LET w == WaitForExit(pr)
        i1 == [s.it EXCEPT !.called = TRUE, !.listening = w.listening]
        i2 == IF w.resolved THEN ResolveOnce(i1, w.code) ELSE i1
    IN IF i2.resolved THEN IterReconcile([s EXCEPT !.it = i2], i2.exit)
       ELSE [s EXCEPT !.it = [i2 EXCEPT !.pc = "awaitExit"], !.cons.state = "waiting"]

\* the generator runs on after events.next() settled with parser state p
IterAdvance(s, p, pr) ==
    CASE p.pc \in {"yield", "yieldLast"} -> IterOnEvent(s, p.cur)
      [] p.pc = "done" /\ p.end = "throw" -> IterCatch(s, p.err)
      [] p.pc = "done" -> IterOnEnd(s, pr)
      [] OTHER -> [s EXCEPT !.it.pc = "pulling", !.cons.state = "waiting"]

\* a return() that settles the deferred result with what was buffered
IterReturnSettling(s) ==
    [s EXCEPT !.it.pc = "done", !.cons.state = "stopped",
              !.result = Resolve(@, buildTurnResultFromEvents(s.it.collected).turn,
                                 s.it.collected)]

\* return() on the iterator (the consumer breaks out of its loop)
IterReturn(s) == [s EXCEPT !.it.pc = "done", !.cons.state = "stopped"]

S == [it |-> it, thread |-> thread, result |-> result, cons |-> cons]

Becomes(s) ==
    /\ it' = s.it
    /\ thread' = s.thread
    /\ result' = s.result
    /\ cons' = s.cons

(***************************************************************************)
(* Spec: Thread.runStreamed over a live subprocess                         *)
(***************************************************************************)
StreamLineSet == { <<"M", "1">>, <<"F", "2">>, <<"G", "0">>, <<"p">>, <<"x">> }

DEFAULT_TIMEOUT == 600000

\* process.ts 355-373: spawnDroidStreaming spawns the subprocess; the timeout
\* of the options is not looked at
StreamingProc(timeout) ==
    [state |-> "running", exitCode |-> NullCode, stdoutEnded |-> FALSE,
     killedBy |-> "none", timeout |-> timeout]

\* a spawnDroidStreaming that arms the timer of spawnDroid
KillSourcesWithTimer(pr) == IF pr.timeout > 0 THEN {"caller", "timer"} ELSE {"caller"}

\* who can call proc.kill() on a streaming process: the caller, through the
\* kill handle of StreamingDroidProcess (process.ts 371)
KillSources(pr) == {"caller"}

RECURSIVE Lines(_)
Lines(ls) == IF ls = <<>> THEN <<>> ELSE ls[1] \o <<"n">> \o Lines(Tail(ls))

Init ==
    /\ \E ls \in LineSeqs(StreamLineSet, MaxRecords) : input = Lines(ls)
    /\ pos = 0
    /\ src = "open"
    /\ pjl = PjlInit
    /\ cons = [state |-> "idle", got |-> <<>>, err |-> NoError, cut |-> FALSE]
    /\ \E t \in {0, DEFAULT_TIMEOUT} : proc = StreamingProc(t)
    /\ thread \in {"", "s0"}
    /\ it = ItInit
    /\ result = ResultInit
    /\ blk = IdleBlk

\* the consumer's for await asks for the next event
ConsumerNext ==
    /\ cons.state \in {"idle", "holding"}
    /\ pjl' = PjlNext(pjl)
    /\ Becomes(IterAdvance(S, pjl', proc))
    /\ UNCHANGED <<input, pos, src, proc, blk>>

\* the consumer breaks out of its loop: the iterator's return() ends the inner
\* for await, which calls return() on streamingProcess.events
ConsumerBreak ==
    /\ cons.state \in {"idle", "holding"}
    /\ pjl' = IF it.pc = "yielded" THEN PjlReturn(pjl) ELSE pjl
    /\ Becomes(IterReturn(S))
    /\ UNCHANGED <<input, pos, src, proc, blk>>

\* a pending read resolves with the next k bytes of stdout
ReadChunk ==
    /\ pjl.pc = "read"
    /\ src = "open"
    /\ \E k \in 1..Remaining :
          /\ pjl' = PjlOnChunk(pjl, Chunk(k))
          /\ pos' = pos + k
          /\ Becomes(IterAdvance(S, pjl', proc))
    /\ UNCHANGED <<input, src, proc, blk>>

\* a pending read resolves with done: stdout ended and was read to its end
ReadDone ==
    /\ pjl.pc = "read"
    /\ src = "open"
    /\ proc.stdoutEnded
    /\ Remaining = 0
    /\ pjl' = PjlOnDone(pjl)
    /\ Becomes(IterAdvance(S, pjl', proc))
    /\ UNCHANGED <<input, pos, src, proc, blk>>

\* stdout emits 'error': controller.error(err)
SourceFail ==
    /\ src = "open"
    /\ ~proc.stdoutEnded
    /\ src' = "errored"
    /\ UNCHANGED <<input, pos, pjl, cons, proc, thread, it, result, blk>>

\* a pending read rejects
ReadError ==
    /\ pjl.pc = "read"
    /\ src = "errored"
    /\ pjl' = PjlOnReadError(pjl, ReadFailure)
    /\ Becomes(IterAdvance(S, pjl', proc))
    /\ UNCHANGED <<input, pos, src, proc, blk>>

\* stdout emits 'end': controller.close()
StdoutEnd ==
    /\ src = "open"
    /\ ~proc.stdoutEnded
    /\ proc' = [proc EXCEPT !.stdoutEnded = TRUE]
    /\ UNCHANGED <<input, pos, src, pjl, cons, thread, it, result, blk>>

\* the subprocess terminates: with an exit code, or by a signal (exitCode
\* stays null)
ProcExit ==
    /\ proc.state = "running"
    /\ \E c \in ExitCodes \cup {NullCode} :
          proc' = [proc EXCEPT !.state = "exited", !.exitCode = c]
    /\ UNCHANGED <<input, pos, src, pjl, cons, thread, it, result, blk>>

\* a kill() that also rejects the deferred result
KillSettling ==
    /\ proc.state = "running"
    /\ proc.killedBy = "none"
    /\ \E by \in KillSources(proc) : proc' = [proc EXCEPT !.killedBy = by]
    /\ result' = Reject(result, ExecutionError(NullCode, <<>>, thread))
    /\ UNCHANGED <<input, pos, src, pjl, cons, thread, it, blk>>

\* kill() of the streaming process: proc.kill() signals the subprocess
Kill ==
    /\ proc.state = "running"
    /\ proc.killedBy = "none"
    /\ \E by \in KillSources(proc) : proc' = [proc EXCEPT !.killedBy = by]
    /\ UNCHANGED <<input, pos, src, pjl, cons, thread, it, result, blk>>

\* 'close' is emitted once the process has terminated and its stdout is
\* closed; an attached waitForExit listener calls resolveOnce(code ?? 0) and
\* an iterator that awaits the exit code goes on
ProcClose ==
    /\ proc.state = "exited"
    /\ proc.stdoutEnded \/ src = "errored"
    /\ proc' = [proc EXCEPT !.state = "closed"]
    /\ IF it.listening
       THEN LET i == ResolveOnce([it EXCEPT !.listening = FALSE], CloseCode(proc)) IN
            IF it.pc = "awaitExit"
            THEN Becomes(IterReconcile([S EXCEPT !.it = i], i.exit))
            ELSE Becomes([S EXCEPT !.it = i])
       ELSE UNCHANGED <<cons, thread, it, result>>
    /\ UNCHANGED <<input, pos, src, pjl, blk>>

Next ==
    \/ ConsumerNext
    \/ ConsumerBreak
    \/ ReadChunk
    \/ ReadDone
    \/ SourceFail
    \/ ReadError
    \/ StdoutEnd
    \/ ProcExit
    \/ ProcClose
    \/ Kill

Spec == Init /\ [][Next]_vars

(***************************************************************************)
(* spawnDroid (src/src/cli/process.ts), blocking mode                      *)
(*   blk.pc        "running" (awaiting Promise.all) | "returned" | "threw" *)
(*   blk.timeout   options.timeout (0: absent or not positive)             *)
(*   blk.timer     "none" | "armed" | "fired" | "cleared"                  *)
(*   blk.timedOut  the timedOut flag; late: the timer fired after the call *)
(*                 had settled                                             *)
(*   blk.streams   per pipe: state "open" | "ended" | "errored" and the    *)
(*                 chunks streamToString has collected                     *)
(*   blk.exit      the waitForExit promise                                 *)
(*   blk.outcome   what the call returned or threw                         *)
(* The subprocess:                                                         *)
(*   proc.todo     the pipes it still writes a chunk to, in order, before  *)
(*                 it exits (at most MaxData writes)                       *)
(*   proc.pipes    per pipe the chunks written and not yet read by the     *)
(*                 parent; a write blocks while PipeCap chunks are there   *)
(*   proc.signalled  the timer's proc.kill() reached the running process   *)
(***************************************************************************)
\* the chunks the subprocess writes: on stdout a number, a control byte or an
\* object with session_id s1; on stderr a control byte
PipeChunks(st) == IF st = "stdout" THEN {<<"p">>, <<"x">>, <<"M", "1">>} ELSE {<<"x">>}

\* Buffer.concat(chunks)
RECURSIVE Concat(_)
Concat(chunks) == IF chunks = <<>> THEN <<>> ELSE Head(chunks) \o Concat(Tail(chunks))

\* utils.ts 22-30: Buffer.concat(chunks).toString('utf-8'); the decoding is not
\* streaming, so an incomplete character at the end becomes U+FFFD
streamToString(chunks) ==
    LET d == Decode(<<>>, Concat(chunks)) IN
    d.chars \o (IF d.pend # <<>> THEN <<"U">> ELSE <<>>)

Pipes == {"stdout", "stderr"}

\* process.ts 294-297: spawn with stdio ['inherit', 'pipe', 'pipe']
BlockingProc(todo) ==
    [state |-> "running", exitCode |-> NullCode, signalled |-> FALSE, todo |-> todo,
     pipes |-> [st \in Pipes |-> <<>>]]

\* a spawnDroid that collects stderr only once stdout has ended
DrainsStdoutFirst(b, st) == st = "stdout" \/ b.streams["stdout"].state # "open"

\* process.ts 310-314: streamToString is called on both pipes before the
\* first await, so both have their 'data' listener from the start
Drains(b, st) == TRUE

NoOutcome == [stdout |-> <<>>, stderr |-> <<>>, exitCode |-> NullCode, err |-> NoError]

BlkInit(timeout) ==
    [pc |-> "running",
     timeout |-> timeout,
     timer |-> IF timeout > 0 THEN "armed" ELSE "none",
     timedOut |-> FALSE,
     late |-> FALSE,
     streams |-> [st \in Pipes |-> [state |-> "open", chunks |-> <<>>]],
     exit |-> [resolved |-> FALSE, code |-> NullCode],
     outcome |-> NoOutcome]

\* lines 316-324 without the timedOut test: the collected output is returned
BlkAfterAllNoTimeoutCheck(b) ==
    [b EXCEPT !.timer = IF @ = "armed" THEN "cleared" ELSE @,
              !.pc = "returned",
              !.outcome = [NoOutcome EXCEPT !.stdout = streamToString(b.streams["stdout"].chunks),
                                            !.stderr = streamToString(b.streams["stderr"].chunks),
                                            !.exitCode = b.exit.code]]

\* lines 316-324: Promise.all resolved
BlkAfterAll(b) ==
    LET b1 == [b EXCEPT !.timer = IF @ = "armed" THEN "cleared" ELSE @] IN
    IF b.timedOut
    THEN [b1 EXCEPT !.pc = "threw", !.outcome.err = TimeoutError(b.timeout)]
    ELSE [b1 EXCEPT !.pc = "returned",
                    !.outcome = [NoOutcome EXCEPT !.stdout = streamToString(b.streams["stdout"].chunks),
                                                  !.stderr = streamToString(b.streams["stderr"].chunks),
                                                  !.exitCode = b.exit.code]]

\* lines 310-314: Promise.all rejects with the first rejection (a stream's
\* 'error'), and resolves once the two streams ended and the exit code is known
BlkJoin(b) ==
    IF b.pc # "running" THEN b
    ELSE IF \E st \in Pipes : b.streams[st].state = "errored"
    THEN [b EXCEPT !.pc = "threw", !.outcome.err = ReadFailure]
    ELSE IF b.exit.resolved /\ \A st \in Pipes : b.streams[st].state = "ended"
    THEN BlkAfterAll(b)
    ELSE b

(***************************************************************************)
(* execDroidJson: the continuation that runs when spawnDroid settles       *)
(***************************************************************************)
NoExec == [pc |-> "running", err |-> NoError, value |-> <<>>]

\* an execDroidJson whose exit-code test does not depend on spawnDroid
\* having returned
execDroidJsonExitFirst(b) ==
    IF b.pc = "running" THEN NoExec
    ELSE IF b.exit.resolved /\ b.exit.code # 0
    THEN [NoExec EXCEPT !.pc = "threw",
                        !.err = ExecutionError(b.exit.code, b.outcome.stderr, "")]
    ELSE IF b.pc = "threw" THEN [NoExec EXCEPT !.pc = "threw", !.err = b.outcome.err]
    ELSE IF IsJson(b.outcome.stdout)
    THEN [NoExec EXCEPT !.pc = "returned", !.value = b.outcome.stdout]
    ELSE [NoExec EXCEPT !.pc = "threw",
                        !.err = ExecutionError(b.outcome.exitCode,
                                               b.outcome.stdout, "")]

\* an execDroidJson that parses stdout before it looks at the exit code
execDroidJsonParseFirst(b) ==
    IF b.pc = "running" THEN NoExec
    ELSE IF b.pc = "threw" THEN [NoExec EXCEPT !.pc = "threw", !.err = b.outcome.err]
    ELSE IF ~IsJson(b.outcome.stdout)
    THEN [NoExec EXCEPT !.pc = "threw",
                        !.err = ExecutionError(b.outcome.exitCode,
                                               b.outcome.stdout, "")]
    ELSE IF b.outcome.exitCode # 0
    THEN [NoExec EXCEPT !.pc = "threw",
                        !.err = ExecutionError(b.outcome.exitCode,
                                               b.outcome.stderr, "")]
    ELSE [NoExec EXCEPT !.pc = "returned", !.value = b.outcome.stdout]

\* process.ts 401-421: a failure of spawnDroid propagates; a non-zero exit code
\* is an ExecutionError with the captured stderr; stdout that JSON.parse
\* rejects is an ExecutionError with the captured stdout
execDroidJson(b) ==
    IF b.pc = "running" THEN NoExec
    ELSE IF b.pc = "threw" THEN [NoExec EXCEPT !.pc = "threw", !.err = b.outcome.err]
    ELSE IF b.outcome.exitCode # 0
    THEN [NoExec EXCEPT !.pc = "threw",
                        !.err = ExecutionError(b.outcome.exitCode,
                                               b.outcome.stderr, "")]
    ELSE IF IsJson(b.outcome.stdout)
    THEN [NoExec EXCEPT !.pc = "returned", !.value = b.outcome.stdout]
    ELSE [NoExec EXCEPT !.pc = "threw",
                        !.err = ExecutionError(b.outcome.exitCode,
                                               b.outcome.stdout, "")]

\* the state of the execDroidJson call layered on the spawnDroid call
exec == execDroidJson(blk)

\* a Thread.run that copies the session id of every result
ThreadRunRelatch(t, b) ==
    LET e == execDroidJson(b) IN
    IF e.pc = "returned" /\ JsonValue(e.value).session_id # ""
    THEN JsonValue(e.value).session_id
    ELSE t

\* thread.ts 83-87: Thread.run, once execDroidJson has returned jsonResult:
\* if (!this._sessionId && jsonResult.session_id) this._sessionId = ...
ThreadRun(t, b) ==
    LET e == execDroidJson(b) IN
    IF e.pc = "returned" /\ t = "" /\ JsonValue(e.value).session_id # ""
    THEN JsonValue(e.value).session_id
    ELSE t

(***************************************************************************)
(* SpecBlocking: one call of spawnDroid                                    *)
(***************************************************************************)
InitBlocking ==
    /\ input = <<>>
    /\ pos = 0
    /\ src = "open"
    /\ pjl = PjlInit
    /\ cons = [state |-> "idle", got |-> <<>>, err |-> NoError, cut |-> FALSE]
    /\ \E todo \in LineSeqs(Pipes, MaxData) : proc = BlockingProc(todo)
    /\ thread \in {"", "s0"}
    /\ it = IdleIt
    /\ result = IdleResult
    /\ \E t \in {0, DEFAULT_TIMEOUT} : blk = BlkInit(t)

\* the subprocess writes its next chunk; the write blocks on a full pipe
BWrite ==
    /\ proc.state = "running"
    /\ proc.todo # <<>>
    /\ LET st == Head(proc.todo) IN
       /\ Len(proc.pipes[st]) < PipeCap
       /\ \E c \in PipeChunks(st) :
             proc' = [proc EXCEPT !.pipes[st] = Append(@, c), !.todo = Tail(@)]
    /\ UNCHANGED <<input, pos, src, pjl, cons, thread, it, result, blk>>

\* stream.on('data', chunk => chunks.push(chunk))
BData ==
    /\ \E st \in Pipes :
          /\ Drains(blk, st)
          /\ blk.streams[st].state = "open"
          /\ proc.pipes[st] # <<>>
          /\ blk' = [blk EXCEPT !.streams[st].chunks = Append(@, Head(proc.pipes[st]))]
          /\ proc' = [proc EXCEPT !.pipes[st] = Tail(@)]
    /\ UNCHANGED <<input, pos, src, pjl, cons, thread, it, result>>

\* stream.on('end', () => resolve(...)): the subprocess is gone and the pipe
\* has been read to its end
BStreamEnd ==
    /\ \E st \in Pipes :
          /\ Drains(blk, st)
          /\ blk.streams[st].state = "open"
          /\ proc.state # "running"
          /\ proc.pipes[st] = <<>>
          /\ blk' = BlkJoin([blk EXCEPT !.streams[st].state = "ended"])
    /\ thread' = ThreadRun(thread, blk')
    /\ UNCHANGED <<input, pos, src, pjl, cons, proc, it, result>>

\* stream.on('error', reject)
BStreamError ==
    /\ \E st \in Pipes :
          /\ blk.streams[st].state = "open"
          /\ blk' = BlkJoin([blk EXCEPT !.streams[st].state = "errored"])
    /\ thread' = ThreadRun(thread, blk')
    /\ UNCHANGED <<input, pos, src, pjl, cons, proc, it, result>>

\* the timer callback: timedOut = true; proc.kill() (a signal is delivered
\* only to a process that has not terminated)
BTimerFire ==
    /\ blk.timer = "armed"
    /\ blk' = [blk EXCEPT !.timer = "fired", !.timedOut = TRUE,
                          !.late = blk.pc # "running"]
    /\ proc' = [proc EXCEPT !.signalled = @ \/ proc.state = "running"]
    /\ UNCHANGED <<input, pos, src, pjl, cons, thread, it, result>>

\* the subprocess terminates: with an exit code once it has written all its
\* output; after the timer's signal, with an exit code or by the signal
BProcExit ==
    /\ proc.state = "running"
    /\ \E c \in ExitCodes \cup {NullCode} :
          /\ IF c = NullCode THEN proc.signalled ELSE (proc.todo = <<>> \/ proc.signalled)
          /\ proc' = [proc EXCEPT !.state = "exited", !.exitCode = c]
    /\ UNCHANGED <<input, pos, src, pjl, cons, thread, it, result, blk>>

\* the subprocess is terminated by a signal from outside the library
BProcKilled ==
    /\ proc.state = "running"
    /\ proc' = [proc EXCEPT !.state = "exited", !.exitCode = NullCode]
    /\ UNCHANGED <<input, pos, src, pjl, cons, thread, it, result, blk>>

\* 'close': the process terminated and both pipes are closed; the listener of
\* waitForExit resolves with code ?? 0
BProcClose ==
    /\ proc.state = "exited"
    /\ \A st \in Pipes : blk.streams[st].state # "open"
    /\ proc' = [proc EXCEPT !.state = "closed"]
    /\ blk' = BlkJoin([blk EXCEPT !.exit = [resolved |-> TRUE, code |-> CloseCode(proc)]])
    /\ thread' = ThreadRun(thread, blk')
    /\ UNCHANGED <<input, pos, src, pjl, cons, it, result>>

NextBlocking ==
    \/ BWrite
    \/ BData
    \/ BStreamEnd
    \/ BStreamError
    \/ BTimerFire
    \/ BProcExit
    \/ BProcKilled
    \/ BProcClose

\* The subprocess writes whenever the pipe has room and exits once it has
\* written everything or was signalled; the event loop delivers 'data', 'end'
\* and 'close'.
SpecBlocking ==
    /\ InitBlocking
    /\ [][NextBlocking]_vars
    /\ WF_vars(BWrite)
    /\ WF_vars(BData)
    /\ WF_vars(BProcExit)
    /\ WF_vars(BStreamEnd)
    /\ WF_vars(BProcClose)

(***************************************************************************)
(* SpecThread: one Thread object on which run is called and, once that     *)
(* call has settled, runStreamed                                           *)
(***************************************************************************)
\* thread.ts 29-41: runStreamed spawns a fresh subprocess; the Thread keeps
\* its session id
RunStreamedCall ==
    /\ blk.pc \in {"returned", "threw"}
    /\ \E ls \in LineSeqs(StreamLineSet, MaxRecords) : input' = Lines(ls)
    /\ pos' = 0
    /\ src' = "open"
    /\ pjl' = PjlInit
    /\ cons' = [state |-> "idle", got |-> <<>>, err |-> NoError, cut |-> FALSE]
    /\ proc' = StreamingProc(blk.timeout)
    /\ it' = ItInit
    /\ result' = ResultInit
    /\ blk' = IdleBlk
    /\ UNCHANGED thread

InitThread == InitBlocking

NextThread ==
    \/ (blk.pc # "none" /\ NextBlocking)
    \/ RunStreamedCall
    \/ (it.pc # "none" /\ Next)

SpecThread == InitThread /\ [][NextThread]_vars

(***************************************************************************)
(* Properties of Thread.runStreamed (Spec)                                 *)
(***************************************************************************)
IsPrefix(a, b) == Len(a) <= Len(b) /\ a = SubSeq(b, 1, Len(a))

\* the event sequence of the subprocess was consumed to its end: the parser
\* finished by itself, it was not cancelled by the consumer
Drained == pjl.pc = "done" /\ pjl.end \in {"return", "throw"}

\* the for await loop of createEventIterator ended normally and the exit code
\* is known
Reconciled == pjl.pc = "done" /\ pjl.end = "return" /\ it.exit # NullCode

\* C1: whenever the deferred result is resolved, the TurnResult was built from
\* exactly the events delivered to the live consumer, in the same order
C1_ResultFromDelivered ==
    result.state = "resolved" =>
        /\ result.from = cons.got
        /\ result.value = buildTurnResultFromEvents(cons.got).turn

C1_Witness ==
    /\ result.state = "resolved"
    /\ Len(cons.got) = 2
    /\ cons.got[1] # cons.got[2]

\* C2: when the sequence was consumed to its end, the exit code is non-zero
\* and no event was observed, the deferred result is rejected with an
\* ExecutionError carrying the exit code, an empty stderr and the thread's
\* session identifier
C2_FailureBranch ==
    (/\ it.pc = "done"
     /\ pjl.pc = "done" /\ pjl.end = "return"
     /\ pjl.out = <<>>
     /\ proc.exitCode \notin {0, NullCode})
    => /\ result.state = "rejected"
       /\ result.err = ExecutionError(proc.exitCode, <<>>, thread)

C2_Witness ==
    /\ result.state = "rejected"
    /\ result.err.kind = "ExecutionError"
    /\ result.err.sessionId = "s0"
    /\ result.err.code = 1
    /\ cons.state = "done"

\* C3: when the sequence ended without a parse failure and the exit code is
\* zero or at least one event was observed, the deferred result is resolved
\* with the fold of the buffered events
C3_SuccessBranch ==
    (Reconciled /\ (it.exit = 0 \/ it.collected # <<>>))
    => /\ result.state = "resolved"
       /\ result.value = buildTurnResultFromEvents(it.collected).turn

\* C4: a failure raised while iterating the subprocess output terminates the
\* consumer's iteration with a thrown error and rejects the deferred result
\* with the same error
C4_BothSeeFailure ==
    (pjl.pc = "done" /\ pjl.end = "throw" /\ it.pc = "done")
    => /\ cons.state = "threw"
       /\ cons.err = pjl.err
       /\ result.state = "rejected"
       /\ result.err = pjl.err

\* C5: the deferred result is settled only once the consumer has consumed the
\* live sequence to its end; a consumer that stopped early or never iterated
\* leaves it pending
C5_PendingUntilDrained == result.state # "pending" => cons.state = "done"

C5_Witness ==
    /\ cons.state = "stopped"
    /\ Len(cons.got) >= 1
    /\ proc.state = "closed"
    /\ result.state = "pending"

\* C6: once the consumer has consumed the sequence to its end and the
\* subprocess has terminated, the deferred result settles: no such state
\* with a pending result is one in which nothing more can happen
C6_EventuallySettles ==
    (Drained /\ cons.state # "stopped" /\ proc.state = "closed")
    => (result.state # "pending" \/ ENABLED Next)

\* C12: waitForExit resolves its promise at most once, also when the
\* already-exited check and the 'close' listener both call resolveOnce, and
\* the value is the exit code of the process (0 for a process without one)
C12_SettlesOnce ==
    /\ it.resolves <= 1
    /\ it.resolved <=> it.resolves = 1
    /\ it.resolved => /\ it.exit = CloseCode(proc)
                      /\ proc.exitCode # NullCode => it.exit = proc.exitCode

C12_Witness ==
    /\ it.attempts = 2
    /\ it.resolves = 1
    /\ it.exit = 1
    /\ proc.state = "closed"

\* C13: once waitForExit was called and the process has terminated and
\* emitted 'close', the promise of waitForExit is resolved, whether 'close'
\* came before or after the listener was attached
C13_ResolvesForTerminated ==
    (it.called /\ proc.state = "closed") => it.resolved

\* C32: resolveResult and rejectResult are invoked at most once between
\* them, the deferred result is settled exactly when one of them was invoked,
\* and a settled result never changes
C32_ResultSettledOnce ==
    /\ [](/\ result.calls <= 1
          /\ result.state \in {"pending", "resolved", "rejected"}
          /\ result.state # "pending" <=> result.calls = 1)
    /\ [][result.state # "pending" => result' = result]_vars

C32_Witness ==
    /\ result.state = "rejected"
    /\ result.calls = 1
    /\ result.err.kind = "ExecutionError"
    /\ it.pc = "done"
    /\ proc.state = "closed"
    /\ ~ENABLED Next

\* C33: when the process was terminated by a signal (no exit code), no event
\* was observed and the consumer consumed the sequence to its end, the
\* deferred result is not rejected, it resolves to the empty TurnResult with
\* isError false, the exit code being reported as 0; a result still pending
\* is one that is still going to be settled
C33_SignalDeathResolvesEmpty ==
    (/\ pjl.pc = "done" /\ pjl.end = "return"
     /\ pjl.out = <<>>
     /\ cons.state # "stopped"
     /\ proc.exitCode = NullCode
     /\ proc.state = "closed")
    => /\ result.state # "rejected"
       /\ result.state = "resolved"
            => (result.value = EmptyTurn /\ ~result.value.isError /\ it.exit = 0)
       /\ result.state = "pending" => ENABLED Next

\* C37: the events delivered to the consumer are a prefix of the buffer
\* collectedEvents, which is at most one event longer, and the thread has a
\* session identifier as soon as a delivered event carries one
C37_DeliveredPrefixOfBuffer ==
    /\ IsPrefix(cons.got, it.collected)
    /\ Len(it.collected) <= Len(cons.got) + 1
    /\ (\E i \in 1..Len(cons.got) : cons.got[i].session_id # "") => thread # ""

C37_Witness ==
    /\ Len(cons.got) = 1
    /\ Len(it.collected) = 2
    /\ cons.got[1].session_id = "s1"
    /\ thread = "s1"
    /\ it.caught = TypeError

\* C23: once the consumer has stopped iterating before the end of the
\* stream, the subprocess is terminated or has been signalled, and its output
\* pipe is not left open
C23_BreakReleasesProcess ==
    (cons.state = "stopped" /\ pjl.end # "return")
    => /\ proc.state = "running" => proc.killedBy # "none"
       /\ proc.stdoutEnded \/ src # "open"

Settles == result.state = "pending" /\ result'.state # "pending"

\* C25 as stated: kill leaves the deferred result alone, and after a kill the
\* result is settled only by the reconciliation that runs once the output
\* has ended and the exit code is known
C25_SettledOnlyByReconciliation ==
    [][/\ Kill => result' = result
       /\ (Settles /\ proc.killedBy # "none")
          => (pjl'.pc = "done" /\ pjl'.end = "return" /\ it'.exit # NullCode)]_vars

\* C25 amended: kill leaves the deferred result alone; after a kill the
\* result is settled only by a step of the event iterator: by the
\* reconciliation that runs once the output has ended and the exit code is
\* known, or by a failure raised while it iterates the output or aggregates
C25_KillNeverSettles ==
    [][/\ Kill => result' = result
       /\ (Settles /\ proc.killedBy # "none")
          => /\ it.pc # "done" /\ it'.pc = "done"
             /\ \/ /\ pjl'.pc = "done" /\ pjl'.end = "return" /\ it'.exit # NullCode
                   /\ it'.caught = NoError
                \/ /\ it'.caught # NoError
                   /\ result'.state = "rejected"
                   /\ result'.err = it'.caught]_vars

C25_Witness ==
    /\ proc.killedBy = "caller"
    /\ proc.exitCode = NullCode
    /\ proc.state = "closed"
    /\ result.state = "resolved"
    /\ Len(cons.got) = 1

(***************************************************************************)
(* Properties of parseJsonLines (SpecParse)                                *)
(***************************************************************************)
\* the non-blank lines of the whole input, trimmed
RECURSIVE NonBlank(_)
NonBlank(ls) ==
    IF ls = <<>> THEN <<>>
    ELSE IF Trim(Head(ls)) = <<>> THEN NonBlank(Tail(ls))
    ELSE <<Trim(Head(ls))>> \o NonBlank(Tail(ls))

RecordTexts(bytes) == NonBlank(Split(Decode(<<>>, bytes).chars))

\* the values of the records that precede the first line that is not JSON
RECURSIVE ValuesUntilInvalid(_)
ValuesUntilInvalid(ts) ==
    IF ts = <<>> \/ ~IsJson(Head(ts)) THEN <<>>
    ELSE <<JsonValue(Head(ts))>> \o ValuesUntilInvalid(Tail(ts))

\* C7: for an input of valid records, every split of the byte stream into
\* chunks yields the records that the input delivered as one chunk yields, in
\* the same order, and ends normally
C7_ChunkInvariance ==
    (/\ pjl.pc = "done"
     /\ pjl.end \in {"return", "throw"}
     /\ src = "open"
     /\ OneShot(input).end = "return")
    => /\ pjl.end = "return"
       /\ pjl.out = OneShot(input).out
       /\ cons.got = pjl.out

C7_Witness ==
    /\ pjl.pc = "done"
    /\ pjl.end = "return"
    /\ cons.state = "done"
    /\ cons.cut
    /\ Len(cons.got) = 3
    /\ cons.got[2].text = <<"E">>
    /\ input[Len(input)] # "n"

\* C8: no record that follows a malformed line is ever yielded, and when the
\* sequence fails on a malformed line every valid record that precedes it has
\* been yielded, in order
C8_YieldedBeforeFailure ==
    /\ IsPrefix(pjl.out, ValuesUntilInvalid(RecordTexts(input)))
    /\ (pjl.pc = "done" /\ pjl.end = "throw" /\ src = "open")
       => /\ pjl.out = ValuesUntilInvalid(RecordTexts(input))
          /\ cons.got = pjl.out
          /\ cons.state = "threw"

C8_Witness ==
    /\ pjl.pc = "done"
    /\ pjl.end = "throw"
    /\ src = "open"
    /\ cons.got # <<>>
    /\ pos = Len(input)
    /\ Len(RecordTexts(input)) = 3
    /\ Len(cons.got) = 1

\* C9: the failure with which the sequence terminates on a malformed line is
\* a ParseError
C9_FailsWithParseError ==
    (pjl.pc = "done" /\ pjl.end = "throw" /\ src = "open")
    => pjl.err.kind = "ParseError"

\* a read of the failed source rejects
ReadRejects == pjl.pc = "read" /\ src # "open" /\ pjl' # pjl

\* C28 as stated: a read failure terminates the sequence with a StreamError
\* whose cause is the reason the read rejected with, and a sequence that
\* ended normally never had a read failure
C28_CauseIsReason ==
    /\ [][ReadRejects =>
            /\ pjl'.pc = "done" /\ pjl'.end = "throw"
            /\ pjl'.err = StreamError(SrcReason)
            /\ cons'.state = "threw" /\ cons'.err = pjl'.err]_vars
    /\ []((pjl.pc = "done" /\ pjl.end = "return") => src = "open")

\* C28 amended: the cause is the reason itself when that is an Error, and
\* otherwise a new Error made from it
C28_CauseIsReasonAsError ==
    /\ [][ReadRejects =>
            /\ pjl'.pc = "done" /\ pjl'.end = "throw"
            /\ pjl'.err.kind = "StreamError"
            /\ pjl'.err.cause = (IF src = "thrown" THEN "Error" ELSE SrcReason.kind)
            /\ cons'.state = "threw" /\ cons'.err = pjl'.err]_vars
    /\ []((pjl.pc = "done" /\ pjl.end = "return") => src = "open")

C28_Witness ==
    /\ src = "thrown"
    /\ pjl.pc = "done"
    /\ pjl.end = "throw"
    /\ pjl.err.kind = "StreamError"
    /\ pjl.err.cause = "Error"
    /\ cons.state = "threw"
    /\ Len(cons.got) = 1
    /\ pos < Len(input)

\* C31: the reader is held exactly while the generator's body is running or
\* suspended, and is released, once, when the generator completes: at the
\* end of the stream, on a parse or read failure, and when the consumer stops
\* at a yield; it is never released while a read is still to be made (a
\* generator stopped before its body was entered never acquired a reader)
C31_ReaderReleasedOnce ==
    /\ pjl.releases <= 1
    /\ pjl.pc \in {"read", "yield", "yieldLast"} => (pjl.lock = "held" /\ pjl.releases = 0)
    /\ pjl.lock = "released" => (pjl.pc = "done" /\ pjl.releases = 1)
    /\ pjl.pc = "done"
         => \/ pjl.lock = "released"
            \/ pjl.lock = "none" /\ pjl.end = "cancel" /\ pjl.out = <<>> /\ pos = 0
    /\ pjl.pc = "done" => (~ENABLED PReadChunk /\ ~ENABLED PReadDone /\ ~ENABLED PReadError)

C31_Witness ==
    /\ pjl.pc = "done"
    /\ pjl.end = "cancel"
    /\ pjl.lock = "released"
    /\ pjl.releases = 1
    /\ cons.state = "stopped"
    /\ Len(cons.got) = 1
    /\ pos < Len(input)

\* the text decoded from the bytes received so far, and what the decoder
\* holds back of an incomplete character at their end
Received == Decode(<<>>, SubSeq(input, 1, pos))

ReceivedLines == Split(Received.chars)

\* C38: once a chunk has been processed the buffer holds no newline and is
\* the text received so far after its last newline (bytes of an incomplete
\* character at the end are with the decoder); when the generator asks for
\* the next chunk, every complete line received has been yielded, or dropped
\* as blank, in order
C38_BufferIsUnfinishedLine ==
    (pos > 0 /\ pjl.pc \in {"read", "yield"})
    => LET complete == NonBlank(SubSeq(ReceivedLines, 1, Len(ReceivedLines) - 1))
           vals == [i \in 1..Len(complete) |-> JsonValue(complete[i])]
       IN /\ \A i \in 1..Len(pjl.buffer) : pjl.buffer[i] # "n"
          /\ pjl.buffer = ReceivedLines[Len(ReceivedLines)]
          /\ pjl.pend = Received.pend
          /\ IsPrefix(pjl.out, vals)
          /\ pjl.pc = "read" => (pjl.lines = <<>> /\ pjl.out = vals)

C38_Witness ==
    /\ pjl.pc = "read"
    /\ pos > 0
    /\ pjl.buffer = <<"M">>
    /\ pjl.pend = <<"L">>
    /\ Len(pjl.out) = 1
    /\ Len(ReceivedLines) = 3

\* the lines of the input as split('\n') gives them
InputLines == Split(Decode(<<>>, input).chars)

AllValid(ts) == \A i \in 1..Len(ts) : IsJson(ts[i])

\* C27: when every line of the stream that is not blank or whitespace-only is
\* a valid record, only those records are yielded, in order; the sequence
\* does not fail, and a consumer that drains it has received exactly as many
\* values as there are such lines
C27_BlankLinesYieldNothing ==
    LET ts == RecordTexts(input)
        vals == [i \in 1..Len(ts) |-> JsonValue(ts[i])]
    IN AllValid(ts) =>
          /\ IsPrefix(pjl.out, vals)
          /\ IsPrefix(cons.got, vals)
          /\ (pjl.pc = "done" /\ src = "open") => pjl.end \in {"return", "cancel"}
          /\ (pjl.pc = "done" /\ pjl.end = "return")
                => (cons.got = vals /\ Len(cons.got) = Len(ts))

C27_Witness ==
    /\ pjl.pc = "done"
    /\ pjl.end = "return"
    /\ cons.state = "done"
    /\ Len(cons.got) = 2
    /\ Len(InputLines) = 4
    /\ InputLines[2] = <<"s">>
    /\ InputLines[4] = <<>>
    /\ AllValid(RecordTexts(input))

(***************************************************************************)
(* Properties of spawnDroid (SpecBlocking)                                 *)
(***************************************************************************)
\* the timer fired while the call was pending and the process had not
\* terminated: the process was signalled
KilledByTimer == blk.timedOut /\ ~blk.late /\ proc.signalled

Captured(st) == streamToString(blk.streams[st].chunks)

\* C21 as stated: a result is returned only for exit code 0 and stdout that
\* parses; a settled call whose process exited with a non-zero code has failed
\* with ExecutionError(code, stderr), one whose process exited with code 0 and
\* unparseable stdout with ExecutionError(0, stdout)
C21_ResultOnlyOnExitZero ==
    /\ exec.pc = "returned" => (proc.exitCode = 0 /\ IsJson(Captured("stdout")))
    /\ (exec.pc # "running" /\ proc.exitCode \notin {0, NullCode})
       => exec.err = ExecutionError(proc.exitCode, Captured("stderr"), "")
    /\ (exec.pc # "running" /\ proc.exitCode = 0 /\ ~IsJson(Captured("stdout")))
       => exec.err = ExecutionError(0, Captured("stdout"), "")

\* C21 amended: when spawnDroid returns (no timer fired, no collection
\* failed), a result is returned only if the reported exit code is 0, that is
\* the process exited with code 0 or was terminated by a signal, and stdout
\* parses; a non-zero code fails with ExecutionError(code, stderr) whatever
\* stdout holds, and a reported 0 with unparseable stdout fails with
\* ExecutionError(0, stdout). When spawnDroid fails, so does the call, with
\* the same error.
C21_ResultOnlyOnReportedZero ==
    /\ exec.pc = "returned"
       => /\ blk.pc = "returned"
          /\ proc.exitCode \in {0, NullCode}
          /\ IsJson(Captured("stdout"))
          /\ exec.value = Captured("stdout")
    /\ (blk.pc = "returned" /\ proc.exitCode \notin {0, NullCode})
       => exec.err = ExecutionError(proc.exitCode, Captured("stderr"), "")
    /\ (blk.pc = "returned" /\ proc.exitCode \in {0, NullCode}
           /\ ~IsJson(Captured("stdout")))
       => exec.err = ExecutionError(0, Captured("stdout"), "")
    /\ blk.pc = "threw" => (exec.pc = "threw" /\ exec.err = blk.outcome.err)

C21_Witness ==
    /\ exec.pc = "threw"
    /\ proc.exitCode = 0
    /\ Captured("stdout") = <<"x">>
    /\ exec.err = ExecutionError(0, <<"x">>, "")
    /\ Captured("stderr") # <<>>

\* C26: for a process that writes any amount to stdout and stderr in any
\* interleaving and then exits, the call eventually settles; it returns,
\* with everything the process wrote, unless the timer fired or the
\* collection of a pipe failed
C26_NoPipeDeadlock ==
    /\ <>(blk.pc # "running")
    /\ [](blk.pc = "threw"
            => (blk.timedOut \/ \E st \in Pipes : blk.streams[st].state = "errored"))
    /\ [](blk.pc = "returned" => \A st \in Pipes : proc.pipes[st] = <<>>)

C26_Witness ==
    /\ blk.pc = "returned"
    /\ Len(blk.streams["stderr"].chunks) = 2
    /\ proc.todo = <<>>
    /\ proc.exitCode = 0

\* C34: a settled spawnDroid has failed with TimeoutError only when a
\* positive timeout was configured and the process had not terminated when
\* the timer fired (the timer's kill reached it); a call that did not fail
\* on a pipe and whose process terminated before the timer fired has
\* returned its output; without a positive timeout no timer is armed
C34_TimeoutOnlyForRunningProcess ==
    /\ (blk.pc = "threw" /\ blk.outcome.err.kind = "TimeoutError")
         => (blk.timeout > 0 /\ proc.signalled)
    /\ (/\ blk.pc # "running"
        /\ ~proc.signalled
        /\ \A st \in Pipes : blk.streams[st].state # "errored")
         => (blk.pc = "returned" /\ blk.outcome.exitCode = CloseCode(proc))
    /\ blk.timeout <= 0 => (blk.timer = "none" /\ ~blk.timedOut)

\* C35: once spawnDroid has settled (returned, failed with TimeoutError or
\* failed on a pipe) its timer is no longer armed, and it never fires after
\* the call has settled
C35_TimerCancelledOnSettle ==
    blk.pc # "running" => (blk.timer # "armed" /\ ~blk.late)

(***************************************************************************)
(* Properties of a Thread (SpecThread)                                     *)
(***************************************************************************)
\* the session identifier the step observes: that of the event the iterator
\* of runStreamed has just buffered, or that of the result run has just got
ObservedSession ==
    IF it.pc # "none" /\ it'.pc # "none"
    THEN IF Len(it'.collected) = Len(it.collected) + 1
         THEN it'.collected[Len(it'.collected)].session_id
         ELSE ""
    ELSE IF blk.pc = "running" /\ execDroidJson(blk').pc = "returned"
    THEN JsonValue(execDroidJson(blk').value).session_id
    ELSE ""

\* C22: Thread.id is write-once: a defined identifier is never changed, by no
\* event, run, runStreamed or failure; an undefined one becomes the first
\* non-empty session identifier that a run or runStreamed observes
C22_IdWriteOnce ==
    [][/\ thread # "" => thread' = thread
       /\ thread = "" => thread' = ObservedSession]_vars

C22_Witness ==
    /\ thread = "s1"
    /\ it.pc # "none"
    /\ result.state = "resolved"
    /\ \E k \in 1..Len(cons.got) : cons.got[k].session_id = "s2"
    /\ result.value.sessionId = "s2"

(***************************************************************************)
(* Properties of buildTurnResultFromEvents and collectStreamEvents         *)
(* (SpecFold)                                                              *)
(***************************************************************************)
Turn == result.acc.turn

Summary == it.acc.sum

IsFailed(ev) == ev.isObject /\ ev.type = "turn.failed"

IsCompleted(ev) == ev.isObject /\ ev.type = "completion"

\* the events the function has processed so far
Seen(n) == SubSeq(input, 1, n)

\* C14: a returned result with isError = true carries as finalResponse the
\* error message of a TurnFailed event of the sequence
C14_ErrorMeansFailureMessage ==
    (result.state = "returned" /\ Turn.isError)
    => \E k \in 1..Len(input) :
          IsFailed(input[k]) /\ input[k].hasError /\ Turn.finalResponse = input[k].text

\* C15: in both functions the error flag is true exactly when a TurnFailed
\* event has been processed; no later event clears it
C15_ErrorIffFailed ==
    /\ Turn.isError <=> \E k \in 1..result.n : IsFailed(input[k])
    /\ Summary.isError <=> \E k \in 1..it.n : IsFailed(input[k])

C15_Witness ==
    /\ result.state = "returned"
    /\ it.state = "returned"
    /\ Len(input) = 3
    /\ IsFailed(input[1])
    /\ IsCompleted(input[2])
    /\ input[3].type = "message"
    /\ Turn.isError
    /\ Summary.isError

\* the Message, ToolCall and ToolResult events of a sequence, as items
RECURSIVE ItemsOf(_)
ItemsOf(events) ==
    IF events = <<>> THEN <<>>
    ELSE LET ev == Head(events) IN
         IF ev.isObject /\ ev.type \in {"message", "tool_call", "tool_result"}
         THEN <<[type |-> ev.type, text |-> ev.text]>> \o ItemsOf(Tail(events))
         ELSE ItemsOf(Tail(events))

\* C16: the item list is the subsequence of the Message, ToolCall and
\* ToolResult events processed, in arrival order, one item per event; no
\* other event produces an item
C16_ItemsAreSubsequence == Turn.items = ItemsOf(Seen(result.n))

C16_Witness ==
    /\ result.state = "returned"
    /\ Len(input) = 3
    /\ input[1].type = "tool_result"
    /\ IsCompleted(input[2])
    /\ input[3].type = "message"
    /\ Len(Turn.items) = 2

\* the last non-empty session identifier of a sequence ("" when none)
RECURSIVE LastSession(_)
LastSession(events) ==
    IF events = <<>> THEN ""
    ELSE LET ev == events[Len(events)] IN
         IF ev.isObject /\ ev.session_id # "" THEN ev.session_id
         ELSE LastSession(SubSeq(events, 1, Len(events) - 1))

\* C17: the session identifier is the latest non-empty one among the events
\* processed; an event with an empty or absent identifier never clears or
\* overwrites it (in collectStreamEvents it is undefined until one is seen)
C17_LatestNonEmptySession ==
    /\ Turn.sessionId = LastSession(Seen(result.n))
    /\ Summary.sessionId =
          IF LastSession(Seen(it.n)) = "" THEN UndefinedId ELSE LastSession(Seen(it.n))

C17_Witness ==
    /\ result.state = "returned"
    /\ it.state = "returned"
    /\ Len(input) = 3
    /\ input[1].session_id = "s2"
    /\ input[2].session_id = "s1"
    /\ input[3].session_id = ""
    /\ Turn.sessionId = "s1"
    /\ Summary.sessionId = "s1"

\* C18: after a TurnCompleted event was processed, duration and turn count
\* are those of the last TurnCompleted processed, and so is the final response
\* unless a TurnFailed followed it
C18_LastCompletedWins ==
    \A k \in 1..result.n :
        (IsCompleted(input[k]) /\ \A j \in (k + 1)..result.n : ~IsCompleted(input[j]))
        => /\ Turn.durationMs = input[k].durationMs
           /\ Turn.numTurns = input[k].numTurns
           /\ (\A j \in (k + 1)..result.n : ~IsFailed(input[j]))
              => Turn.finalResponse = input[k].text

C18_Witness ==
    /\ result.state = "returned"
    /\ Len(input) = 3
    /\ IsCompleted(input[1])
    /\ IsCompleted(input[3])
    /\ input[1] # input[3]
    /\ Turn.finalResponse = input[3].text
    /\ Turn.numTurns = 2

\* the loop iteration that is about to run processes a TurnFailed event
FailedStep ==
    /\ BuildStep
    /\ IsFailed(input[result.n + 1])

\* C19 as stated: processing a TurnFailed event leaves duration, turn count,
\* the item list and a session identifier latched earlier unchanged
C19_FailedKeepsSession ==
    [][FailedStep =>
          /\ result'.acc.turn.durationMs = Turn.durationMs
          /\ result'.acc.turn.numTurns = Turn.numTurns
          /\ result'.acc.turn.items = Turn.items
          /\ Turn.sessionId # "" => result'.acc.turn.sessionId = Turn.sessionId]_vars

\* C19 amended: processing a TurnFailed event sets the error flag and the
\* final response and leaves duration, turn count and the item list
\* unchanged; the session identifier is unchanged unless the event itself
\* carries a non-empty one, which replaces it
C19_FailedFrame ==
    [][FailedStep =>
          LET ev == input[result.n + 1]
              after == result'.acc.turn
          IN /\ after.durationMs = Turn.durationMs
             /\ after.numTurns = Turn.numTurns
             /\ after.items = Turn.items
             /\ after.sessionId =
                   IF ev.session_id # "" THEN ev.session_id ELSE Turn.sessionId
             /\ after.isError
             /\ ev.hasError => after.finalResponse = ev.text]_vars

C19_Witness ==
    /\ result.state = "returned"
    /\ Len(input) = 3
    /\ input[1].type = "message"
    /\ IsCompleted(input[2])
    /\ IsFailed(input[3])
    /\ input[3].session_id = ""
    /\ Turn.isError
    /\ Turn.durationMs = 1500
    /\ Turn.sessionId = "s1"
    /\ Len(Turn.items) = 1

\* C20: buildTurnResultFromEvents returns for every sequence of values the
\* record parser can produce: it never throws
C20_AggregationNeverThrows == result.state # "threw"

\* both functions have returned a value for the same events
BothReturned == result.state = "returned" /\ it.state = "returned"

\* an identifier of collectStreamEvents against one of buildTurnResultFromEvents
SameSession(s, t) == IF s = UndefinedId THEN t = "" ELSE s = t

AgreeOnFlags ==
    /\ Summary.isError = Turn.isError
    /\ Summary.durationMs = Turn.durationMs
    /\ Summary.numTurns = Turn.numTurns
    /\ SameSession(Summary.sessionId, Turn.sessionId)

NoFailure == \A k \in 1..Len(input) : ~IsFailed(input[k])

\* C39 as stated: the two results agree on isError, durationMs, numTurns and
\* the session identifier (undefined against ''), and on the final text when
\* the sequence holds no TurnFailed
C39_AggregationsAgree ==
    BothReturned
    => /\ AgreeOnFlags
       /\ NoFailure => Summary.finalText = Turn.finalResponse

\* C39 amended: the final texts agree with undefined standing against '' as
\* for the identifier (a sequence without a completion leaves finalText
\* undefined and finalResponse ''); and the two functions throw on the same
\* sequences
C39_AggregationsAgreeUpToUndefined ==
    /\ BothReturned
         => /\ AgreeOnFlags
            /\ NoFailure
                 => IF \E k \in 1..Len(input) : IsCompleted(input[k])
                    THEN Summary.finalText = Turn.finalResponse
                    ELSE Summary.finalText = UndefinedText /\ Turn.finalResponse = <<>>
    /\ it.state \in {"returned", "threw"} => it.state = result.state

C39_Witness ==
    /\ BothReturned
    /\ Len(input) = 3
    /\ NoFailure
    /\ IsCompleted(input[2])
    /\ Summary.finalText = <<"e">>
    /\ Summary.sessionId = UndefinedId
    /\ Turn.sessionId = ""
    /\ Turn.numTurns = 2
    /\ Len(Turn.items) = 2

(***************************************************************************)
(* findDroidPath (src/src/cli/process.ts)                                  *)
(* A path is a sequence of pieces; an environment variable or an optional  *)
(* argument is [set, text].  The file system is the set input.exists of    *)
(* the paths for which existsSync answers true.                            *)
(*   it.pc          "preferred" | "path" | "additional" | "done"           *)
(*   it.rest        the candidates the current loop has not reached yet    *)
(*   it.searchPaths the searchPaths array                                  *)
(*   result         the settled promise: the path, or the error            *)
(*   proc           the subprocess of the caller (spawnDroid), if spawned  *)
(***************************************************************************)
MaxPath == 3

MaxExisting == 2

Undefined == [set |-> FALSE, text |-> <<>>]

Given(t) == [set |-> TRUE, text |-> t]

\* x ?? y on two optional strings
Coalesce(x, y) == IF x.set THEN x ELSE y

\* String.prototype.split(':')
RECURSIVE SplitPathFrom(_, _, _, _)
SplitPathFrom(s, i, cur, acc) ==
    IF i > Len(s) THEN Append(acc, cur)
    ELSE IF s[i] = ":" THEN SplitPathFrom(s, i + 1, <<>>, Append(acc, cur))
         ELSE SplitPathFrom(s, i + 1, Append(cur, s[i]), acc)

SplitPath(s) == SplitPathFrom(s, 1, <<>>, <<>>)

\* `${dir}/droid`
DroidIn(dir) == dir \o <<"/droid">>

\* const pathDirs = (process.env.PATH ?? '').split(':')
pathDirs(env) == SplitPath(Coalesce(env.PATH, Given(<<>>)).text)

\* const homeDir = process.env.HOME ?? process.env.USERPROFILE ?? ''
homeDir(env) == Coalesce(env.HOME, Coalesce(env.USERPROFILE, Given(<<>>))).text

additionalPaths(env) ==
    << homeDir(env) \o <<"/.local/bin/droid">>,
       homeDir(env) \o <<"/.droid-sdk/bin/droid">>,
       <<"/usr/local/bin/droid">>,
       <<"/opt/homebrew/bin/droid">> >>

CliNotFoundError(searchedPaths) ==
    [kind |-> "CliNotFoundError", searchedPaths |-> searchedPaths]

FindPending == [state |-> "pending", path |-> <<>>, err |-> NoError]

\* a probe that does not record the candidate
ProbeUnlisted(f, r, cand, exists) ==
    IF cand \in exists
    THEN [f |-> [f EXCEPT !.pc = "done", !.rest = <<>>],
          r |-> [r EXCEPT !.state = "returned", !.path = cand]]
    ELSE [f |-> [f EXCEPT !.rest = Tail(@)], r |-> r]

\* searchPaths.push(p); if (existsSync(p)) return p
Probe(f, r, cand, exists) ==
    IF cand \in exists
    THEN [f |-> [f EXCEPT !.pc = "done", !.rest = <<>>, !.searchPaths = Append(@, cand)],
          r |-> [r EXCEPT !.state = "returned", !.path = cand]]
    ELSE [f |-> [f EXCEPT !.rest = Tail(@), !.searchPaths = Append(@, cand)], r |-> r]

PathTexts == UNION {[1..k -> {"a", "b", ":"}] : k \in 0..MaxPath}

Files ==
    { <<"c">>, DroidIn(<<"a">>), DroidIn(<<"b">>), DroidIn(<<>>),
      <<"h", "/.local/bin/droid">>, <<"w", "/.droid-sdk/bin/droid">>,
      <<"/usr/local/bin/droid">>, <<"/opt/homebrew/bin/droid">> }

InitFind ==
    /\ \E pref \in {Undefined, Given(<<>>), Given(<<"c">>), Given(DroidIn(<<"a">>))},
          path \in {Undefined} \cup {Given(t) : t \in PathTexts},
          home \in {Undefined, Given(<<"h">>)},
          prof \in {Undefined, Given(<<"w">>)},
          ex \in {e \in SUBSET Files : Cardinality(e) <= MaxExisting} :
          input = [preferred |-> pref, PATH |-> path, HOME |-> home,
                   USERPROFILE |-> prof, exists |-> ex]
    /\ pos = 0
    /\ src = "none"
    /\ pjl = PjlInit
    /\ cons = [state |-> "idle", got |-> <<>>, err |-> NoError, cut |-> FALSE]
    /\ proc = IdleProc
    /\ thread = ""
    /\ it = [pc |-> "preferred", rest |-> <<>>, searchPaths |-> <<>>]
    /\ result = FindPending
    /\ blk = IdleBlk

\* if (preferredPath) { searchPaths.push(...); if (existsSync(...)) return }
FindPreferred ==
    /\ it.pc = "preferred"
    /\ LET given == input.preferred.set /\ input.preferred.text # <<>>
           f == [it EXCEPT !.rest = <<input.preferred.text>>]
           s == IF given THEN Probe(f, result, input.preferred.text, input.exists)
                ELSE [f |-> it, r |-> result]
       IN /\ it' = IF s.f.pc = "done" THEN s.f
                   ELSE [s.f EXCEPT !.pc = "path",
                                    !.rest = [i \in 1..Len(pathDirs(input)) |->
                                                 DroidIn(pathDirs(input)[i])]]
          /\ result' = s.r
    /\ UNCHANGED <<input, pos, src, pjl, cons, proc, thread, blk>>

\* one iteration of `for (const dir of pathDirs)`
FindPathDir ==
    /\ it.pc = "path"
    /\ it.rest # <<>>
    /\ LET s == Probe(it, result, Head(it.rest), input.exists) IN
       it' = s.f /\ result' = s.r
    /\ UNCHANGED <<input, pos, src, pjl, cons, proc, thread, blk>>

\* the PATH loop is over: const additionalPaths = [...]
FindHome ==
    /\ it.pc = "path"
    /\ it.rest = <<>>
    /\ it' = [it EXCEPT !.pc = "additional", !.rest = additionalPaths(input)]
    /\ UNCHANGED <<input, pos, src, pjl, cons, proc, thread, result, blk>>

\* one iteration of `for (const path of additionalPaths)`
FindAdditional ==
    /\ it.pc = "additional"
    /\ it.rest # <<>>
    /\ LET s == Probe(it, result, Head(it.rest), input.exists) IN
       it' = s.f /\ result' = s.r
    /\ UNCHANGED <<input, pos, src, pjl, cons, proc, thread, blk>>

\* throw new CliNotFoundError(searchPaths)
FindThrow ==
    /\ it.pc = "additional"
    /\ it.rest = <<>>
    /\ it' = [it EXCEPT !.pc = "done"]
    /\ result' = [result EXCEPT !.state = "threw", !.err = CliNotFoundError(it.searchPaths)]
    /\ UNCHANGED <<input, pos, src, pjl, cons, proc, thread, blk>>

\* spawnDroid: const droidPath = await findDroidPath(...); spawn(droidPath, ...)
\* (a rejection of findDroidPath leaves spawnDroid before spawn is reached)
FindSpawn ==
    /\ result.state = "returned"
    /\ proc = IdleProc
    /\ proc' = [state |-> "spawned", path |-> result.path]
    /\ UNCHANGED <<input, pos, src, pjl, cons, thread, it, result, blk>>

NextFind ==
    \/ FindPreferred
    \/ FindPathDir
    \/ FindHome
    \/ FindAdditional
    \/ FindThrow
    \/ FindSpawn

SpecFind == InitFind /\ [][NextFind]_vars

(***************************************************************************)
(* Properties of findDroidPath (SpecFind)                                  *)
(***************************************************************************)
\* the PATH directories: the pieces of PATH between its colons
PathDirectories ==
    SplitPath(IF input.PATH.set THEN input.PATH.text ELSE <<>>)

Home ==
    IF input.HOME.set THEN input.HOME.text
    ELSE IF input.USERPROFILE.set THEN input.USERPROFILE.text ELSE <<>>

InstallLocations ==
    << Home \o <<"/.local/bin/droid">>, Home \o <<"/.droid-sdk/bin/droid">>,
       <<"/usr/local/bin/droid">>, <<"/opt/homebrew/bin/droid">> >>

\* every candidate in the order of the search
Candidates ==
    (IF input.preferred.set /\ input.preferred.text # <<>>
     THEN <<input.preferred.text>> ELSE <<>>)
    \o [i \in 1..Len(PathDirectories) |-> PathDirectories[i] \o <<"/droid">>]
    \o InstallLocations

\* C29: a returned path is the first candidate that exists, in the order
\* preferred path, <dir>/droid per PATH directory, installation locations;
\* the call fails exactly when no candidate exists, with a CliNotFoundError
\* whose searchedPaths is the list of all candidates in that order, and then
\* no process is spawned
C29_FirstExistingCandidate ==
    /\ result.state = "returned"
         => \E i \in 1..Len(Candidates) :
               /\ result.path = Candidates[i]
               /\ Candidates[i] \in input.exists
               /\ \A j \in 1..(i - 1) : Candidates[j] \notin input.exists
    /\ result.state = "threw"
         => /\ \A i \in 1..Len(Candidates) : Candidates[i] \notin input.exists
            /\ result.err = CliNotFoundError(Candidates)
            /\ proc = IdleProc
            /\ ~ENABLED FindSpawn
    /\ it.pc = "done" => result.state \in {"returned", "threw"}
    /\ proc # IdleProc => (result.state = "returned" /\ proc.path = result.path)

C29_Witness ==
    /\ result.state = "threw"
    /\ Len(result.err.searchedPaths) = 7
    /\ result.err.searchedPaths[1] = <<"c">>
    /\ result.err.searchedPaths[2] = DroidIn(<<"b">>)
    /\ result.err.searchedPaths[3] = DroidIn(<<"a">>)
    /\ result.err.searchedPaths[4] = <<"w", "/.local/bin/droid">>
    /\ Cardinality(input.exists) = 2

(***************************************************************************)
(* buildPromptWithAttachments (src/src/cli/process.ts)                     *)
(* Texts are sequences of characters; "n" is the newline.  An optional     *)
(* value is [set, text].                                                   *)
(*   input   the arguments: prompt and attachments                         *)
(*   it.pc   "start" | "map" | "done"; it.n attachments mapped so far;     *)
(*           it.refs the attachmentRefs array                              *)
(*   result  the returned value once the function has returned             *)
(***************************************************************************)
MaxAttachments == 2

\* !x for an optional string or array: undefined, '' and [] have no content
Falsy(x) == ~x.set \/ x.text = <<>>

\* a reference line that leaves the description out
AttachmentRefBare(a) == <<"@">> \o a.path

\* const ref = `@${path}`; description ? `${ref} (${description})` : ref
AttachmentRef(a) ==
    IF Falsy(a.description) THEN <<"@">> \o a.path
    ELSE <<"@">> \o a.path \o <<" ", "(">> \o a.description.text \o <<")">>

\* Array.prototype.join('\n')
RECURSIVE JoinLines(_)
JoinLines(refs) ==
    IF refs = <<>> THEN <<>>
    ELSE IF Len(refs) = 1 THEN refs[1]
    ELSE JoinLines(SubSeq(refs, 1, Len(refs) - 1)) \o <<"n">> \o refs[Len(refs)]

Attachments ==
    [path : {<<"a">>, <<"/", "b">>},
     description : {Undefined, Given(<<>>), Given(<<"d">>)}]

Prompts == {Undefined, Given(<<>>), Given(<<"q">>), Given(<<"q", "n", "r">>)}

PromptPending == [state |-> "pending", value |-> Undefined]

InitPrompt ==
    /\ \E pr \in Prompts,
          at \in {Undefined} \cup {Given(l) : l \in LineSeqs(Attachments, MaxAttachments)} :
          input = [prompt |-> pr, attachments |-> at]
    /\ pos = 0
    /\ src = "none"
    /\ pjl = PjlInit
    /\ cons = [state |-> "idle", got |-> <<>>, err |-> NoError, cut |-> FALSE]
    /\ proc = IdleProc
    /\ thread = ""
    /\ it = [pc |-> "start", n |-> 0, refs |-> <<>>]
    /\ result = PromptPending
    /\ blk = IdleBlk

\* if (!prompt && !attachments?.length) return undefined
PromptNothing ==
    /\ it.pc = "start"
    /\ Falsy(input.prompt) /\ Falsy(input.attachments)
    /\ it' = [it EXCEPT !.pc = "done"]
    /\ result' = [state |-> "returned", value |-> Undefined]
    /\ UNCHANGED <<input, pos, src, pjl, cons, proc, thread, blk>>

\* if (!attachments?.length) return prompt
PromptOnly ==
    /\ it.pc = "start"
    /\ ~Falsy(input.prompt) /\ Falsy(input.attachments)
    /\ it' = [it EXCEPT !.pc = "done"]
    /\ result' = [state |-> "returned", value |-> input.prompt]
    /\ UNCHANGED <<input, pos, src, pjl, cons, proc, thread, blk>>

\* attachments.map(...): the callback runs on the next attachment
PromptMap ==
    /\ it.pc \in {"start", "map"}
    /\ ~Falsy(input.attachments)
    /\ it.n < Len(input.attachments.text)
    /\ it' = [pc |-> "map", n |-> it.n + 1,
              refs |-> Append(it.refs, AttachmentRef(input.attachments.text[it.n + 1]))]
    /\ UNCHANGED <<input, pos, src, pjl, cons, proc, thread, result, blk>>

\* attachmentBlock = attachmentRefs.join('\n'); return the block, or
\* `${attachmentBlock}\n\n${prompt}`
PromptCompose ==
    /\ it.pc = "map"
    /\ it.n = Len(input.attachments.text)
    /\ it' = [it EXCEPT !.pc = "done"]
    /\ LET attachmentBlock == JoinLines(it.refs) IN
       result' = [state |-> "returned",
                  value |-> IF Falsy(input.prompt) THEN Given(attachmentBlock)
                            ELSE Given(attachmentBlock \o <<"n", "n">> \o input.prompt.text)]
    /\ UNCHANGED <<input, pos, src, pjl, cons, proc, thread, blk>>

NextPrompt ==
    \/ PromptNothing
    \/ PromptOnly
    \/ PromptMap
    \/ PromptCompose

SpecPrompt == InitPrompt /\ [][NextPrompt]_vars

(***************************************************************************)
(* Properties of buildPromptWithAttachments (SpecPrompt)                   *)
(***************************************************************************)
NoPrompt == ~input.prompt.set \/ input.prompt.text = <<>>

GivenAttachments == IF input.attachments.set THEN input.attachments.text ELSE <<>>

\* the line that stands for attachment a
RefLine(a) ==
    IF a.description.set /\ a.description.text # <<>>
    THEN <<"@">> \o a.path \o <<" ", "(">> \o a.description.text \o <<")">>
    ELSE <<"@">> \o a.path

\* C30: the returned value is undefined when prompt and attachments are both
\* empty, and the prompt itself when there are no attachments; otherwise its
\* lines are one '@<path>' line per attachment in input order, with
\* ' (<description>)' appended when a description is present, followed, when
\* the prompt is not empty, by a blank line and the prompt, and by nothing
\* when it is empty
C30_PromptLayout ==
    result.state = "returned" =>
       LET K == Len(GivenAttachments)
           ls == Split(result.value.text)
       IN IF K = 0
          THEN result.value = (IF NoPrompt THEN Undefined ELSE input.prompt)
          ELSE /\ result.value.set
               /\ Len(ls) >= K
               /\ \A i \in 1..K : ls[i] = RefLine(GivenAttachments[i])
               /\ IF NoPrompt THEN Len(ls) = K
                  ELSE /\ Len(ls) >= K + 2
                       /\ ls[K + 1] = <<>>
                       /\ Join(SubSeq(ls, K + 2, Len(ls))) = input.prompt.text

C30_Witness ==
    /\ result.state = "returned"
    /\ Len(GivenAttachments) = 2
    /\ GivenAttachments[1].description = Given(<<"d">>)
    /\ GivenAttachments[2].description = Given(<<>>)
    /\ input.prompt = Given(<<"q", "n", "r">>)
    /\ result.value =
          Given(<<"@", "a", " ", "(", "d", ")", "n", "@", "/", "b", "n", "n", "q", "n", "r">>)

(***************************************************************************)
(* spawnDroidStreaming: the pipes of the subprocess                        *)
(* (src/src/cli/process.ts, nodeStreamToWebStream in src/src/cli/utils.ts) *)
(*   proc.todo   the pipes the subprocess still writes a chunk to, in      *)
(*               order, before it exits                                    *)
(*   proc.pipes  per pipe the chunks written and not yet read by the       *)
(*               parent; a write blocks while PipeCap chunks are there     *)
(*   input       the chunks enqueued on the web stream so far              *)
(*   pos         how many of them the consumer has read                    *)
(*   src         "open" | "closed" (controller.close() was called)         *)
(*   cons.state  "idle" | "done" (a read answered done)                    *)
(***************************************************************************)
MaxWrites == 3

\* process.ts 358-361: stdio ['inherit', 'pipe', 'pipe']
PipedProc(todo) ==
    [state |-> "running", exitCode |-> NullCode, todo |-> todo,
     pipes |-> [st \in Pipes |-> <<>>]]

\* process.ts 363: only proc.stdout is given to nodeStreamToWebStream, whose
\* 'data' listener (utils.ts 100-102) takes every chunk; nothing reads,
\* resumes or destroys proc.stderr
StreamingDrains(st) == st = "stdout"

StreamChunks(st) ==
    IF st = "stdout" THEN {<<"M", "1", "n">>, <<"p", "n">>} ELSE {<<"x">>}

InitPipes ==
    /\ input = <<>>
    /\ pos = 0
    /\ src = "open"
    /\ pjl = PjlInit
    /\ cons = [state |-> "idle", got |-> <<>>, err |-> NoError, cut |-> FALSE]
    /\ \E todo \in LineSeqs(Pipes, MaxWrites) : proc = PipedProc(todo)
    /\ thread = ""
    /\ it = IdleIt
    /\ result = IdleResult
    /\ blk = IdleBlk

\* the subprocess writes its next chunk; the write blocks on a full pipe
SWrite ==
    /\ proc.state = "running"
    /\ proc.todo # <<>>
    /\ LET st == Head(proc.todo) IN
       /\ Len(proc.pipes[st]) < PipeCap
       /\ \E c \in StreamChunks(st) :
             proc' = [proc EXCEPT !.pipes[st] = Append(@, c), !.todo = Tail(@)]
    /\ UNCHANGED <<input, pos, src, pjl, cons, thread, it, result, blk>>

\* nodeStream.on('data', chunk => controller.enqueue(chunk))
SData ==
    /\ src = "open"
    /\ \E st \in Pipes :
          /\ StreamingDrains(st)
          /\ proc.pipes[st] # <<>>
          /\ input' = Append(input, Head(proc.pipes[st]))
          /\ proc' = [proc EXCEPT !.pipes[st] = Tail(@)]
    /\ UNCHANGED <<pos, src, pjl, cons, thread, it, result, blk>>

\* the consumer's reader.read() takes the next enqueued chunk
SRead ==
    /\ cons.state = "idle"
    /\ pos < Len(input)
    /\ pos' = pos + 1
    /\ cons' = [cons EXCEPT !.got = Append(@, input[pos + 1])]
    /\ UNCHANGED <<input, src, pjl, proc, thread, it, result, blk>>

\* the subprocess exits once it has written all its output
SProcExit ==
    /\ proc.state = "running"
    /\ proc.todo = <<>>
    /\ \E c \in ExitCodes : proc' = [proc EXCEPT !.state = "exited", !.exitCode = c]
    /\ UNCHANGED <<input, pos, src, pjl, cons, thread, it, result, blk>>

\* nodeStream.on('end', () => controller.close()): the subprocess is gone and
\* stdout was read to its end
SStdoutEnd ==
    /\ src = "open"
    /\ proc.state = "exited"
    /\ proc.pipes["stdout"] = <<>>
    /\ src' = "closed"
    /\ UNCHANGED <<input, pos, pjl, cons, proc, thread, it, result, blk>>

\* the consumer's reader.read() answers done
SReadDone ==
    /\ cons.state = "idle"
    /\ src = "closed"
    /\ pos = Len(input)
    /\ cons' = [cons EXCEPT !.state = "done"]
    /\ UNCHANGED <<input, pos, src, pjl, proc, thread, it, result, blk>>

NextPipes ==
    \/ SWrite
    \/ SData
    \/ SRead
    \/ SProcExit
    \/ SStdoutEnd
    \/ SReadDone

\* The subprocess writes whenever the pipe has room and exits once it has
\* written everything; the event loop delivers 'data' and 'end'; the consumer
\* keeps reading.
SpecPipes ==
    /\ InitPipes
    /\ [][NextPipes]_vars
    /\ WF_vars(SWrite)
    /\ WF_vars(SData)
    /\ WF_vars(SRead)
    /\ WF_vars(SProcExit)
    /\ WF_vars(SStdoutEnd)
    /\ WF_vars(SReadDone)

(***************************************************************************)
(* Properties of the streaming pipes (SpecPipes)                           *)
(***************************************************************************)
\* C36: whatever the subprocess writes to stderr, with a consumer that keeps
\* reading it eventually exits, stdout reaches its end and the consumer is
\* told so
C36_StderrNeverBlocks ==
    <>(proc.state = "exited" /\ src = "closed" /\ cons.state = "done")

====
